---- MODULE Spec2Model ----
(***************************************************************************)
(* A model of paper-reader-agent: the vector store builder                 *)
(* (src/code/agents/vector_store.py), the reference downloader             *)
(* (src/code/agents/reference_downloader.py) and the reference manager     *)
(* with its consent log (src/code/agents/reference_manager.py).            *)
(*                                                                         *)
(* Python lists are sequences; Python's 0-based indices are kept as the    *)
(* code computes them (chunk_index, failed_indices, valid_indices) and     *)
(* turned into 1-based positions only where a sequence is indexed.         *)
(***************************************************************************)
EXTENDS Integers, Sequences, FiniteSets, TLC

\* ------------------------------------------------------------------ bounds
MaxChunks == 3
MaxBatch == 2
MaxTitleWords == 4
MaxRefs == 2
MaxIds == 2
MaxOps == 1
MaxClock == 4
MaxAiItems == 2
MaxVectors == 2
MaxK == 3
MaxText == 4
MaxChunkSize == 3
MaxPages == 2
MaxAiChunks == 2
MaxRequestIds == 2
MaxManualCalls == 2
\* The defaults of split_text (2000 and 200 characters) on the scale of the
\* page texts of the model
PageChunkSize == 2
PageOverlap == 1

\* ------------------------------------------------------- program constants
\* for attempt in range(3)
RetryAttempts == 3
\* self.arxiv_delay, self.pubmed_delay
arxiv_delay == 3
pubmed_delay == 1
\* paper_ids[:3]
PaperIdLimit == 3

\* Python's None in a slot of the embeddings list (an embedding is never empty)
None == <<>>
\* Python's None returned in place of an index
NoIndex == [built |-> FALSE, d |-> 0, vectors |-> <<>>]

VARIABLES
    \* VectorStoreBuilder.create_vector_store
    vsPc,             \* "embed" | "remove" | "index" | "done"
    inChunks,         \* the all_chunks list as passed in
    inMetadata,       \* the metadata list as passed in
    batch_size,
    all_chunks,       \* the caller's list, mutated in place by the removal
    metadata,         \* the caller's list, mutated in place by the removal
    vsI,              \* i of the batch loop
    vsJ,              \* j of the loop over the batch
    attempt,          \* attempt of the retry loop
    batch_embeddings,
    embeddings,
    failed_indices,
    vsLog,            \* history: embedding calls and sleeps, in order
    vsIndex,          \* returned index: NoIndex or [built, d, vectors]
    valid_chunks,
    valid_metadata,
    \* ReferenceDownloader._is_similar_paper
    simPc,            \* "idle" | "returned"
    simArgs,          \* the arguments of the call
    simResult,        \* the value returned
    \* ReferenceDownloader
    now,              \* time.time()
    last_arxiv_request,
    last_pubmed_request,
    download_dir,
    progress_callback, \* whether search_and_download_references got a callback
    dlFiles,          \* the files on disk: <<directory, file name>>
    dlPc,             \* "idle" | "check" | "search" | "download" | "fetch" | "pmc" | "done"
    dlQueue,          \* the references search_and_download_references has left
    dlK,              \* position in search_methods of the method running
    dlTrace,          \* history: the methods download_single_reference invoked
    dlResults,        \* results of search_and_download_references
    pmIds,            \* paper ids _search_pubmed has left to look at
    arxivSent,        \* history: times of the last two requests to the arXiv API
    pubmedSent,       \* history: times of the last two requests to the PubMed API
    \* ReferenceManager
    logExists,        \* ./logs/consent_log.jsonl exists
    consentLog,       \* its lines, in order
    rmManagers,       \* managers constructed so far
    rmOps,            \* calls of the manager's operations so far
    rmPc,             \* "idle" | "batch" | "log" | "downloading"
    rmCall,           \* the arguments of the call running
    rmRefs,           \* references extracted by the call running
    rmLogStart,       \* history: length of the log when the call began
    rmResult,         \* what process_pdf_with_consent returned last
    rmBatch,          \* the PDFs batch_process_pdfs has left
    rmBatchResults,   \* batch_results
    rmHistory,        \* the last get_consent_history: arguments and records
    \* ReferenceExtractor
    exEntry,          \* the entry _parse_reference_entry was called with
    exParsed,         \* what it returned, and history: the patterns it searched
    exResponse,       \* what the language model answered to the last chunk
    exAiRefs,         \* what _process_chunk_with_ai returned last
    \* VectorStoreBuilder: build_pdf_vector_store and load_vector_store
    stFiles,          \* the files of vector_store_dir: path -> content
    stPc,             \* "idle" | "metadata" | "returned" | "raised"
    stName,           \* index_name of the build
    stLoaded,         \* what load_vector_store returned last, and when
    \* PaperAgent
    paIndex,          \* self.index: NoIndex or [built, d, vectors]
    paChunks,         \* self.chunks
    paMetadata,       \* self.metadata
    paQuery,          \* the last call of query and how it ended
    paNeighbours,     \* history: indices[0] of the search of that call
    paContext,        \* the chunks and metadata zipped into the context
    paSources,        \* context_metadata as returned
    paBuild,          \* the last build_knowledge_base: what it returned
    \* PDFProcessor.split_text
    spArgs,           \* the arguments of the call
    spWindows,        \* history: start and end of every text[start:end] cut
    spChunks,         \* the list returned
    \* PDFProcessor.load_pdfs_from_directory
    ppPc,             \* "idle" | "open" | "page" | "returned" | "raised"
    ppMaxChars,       \* self.max_chars_per_page
    ppFiles,          \* the PDF files the loop has left
    ppFilename,       \* the file being processed
    ppPageNum,        \* page_num
    ppDocs,           \* history: the document each file turned out to hold
    ppChunks,         \* all_chunks of load_pdfs_from_directory
    ppMetadata,       \* its metadata list
    \* ReferenceExtractor: the AI-assisted and the hybrid extraction
    hyAi,             \* the last _extract_references_ai: arguments and result
    hyCombine,        \* the last _combine_extraction_results
    \* web_UI/main.py: the reference endpoints
    webExtract,       \* the last POST /api/references/extract and its answer
    webDownload,      \* the last POST /api/references/download and its answer
    manualFile,       \* ./manual_references.json
    manualAdded,      \* history: the references added by answered calls
    manualCalls       \* the number of POST /api/references/manual calls

vsVars == <<vsPc, inChunks, inMetadata, batch_size, all_chunks, metadata, vsI,
            vsJ, attempt, batch_embeddings, embeddings, failed_indices, vsLog,
            vsIndex, valid_chunks, valid_metadata>>

simVars == <<simPc, simArgs, simResult>>

dlVars == <<now, last_arxiv_request, last_pubmed_request, download_dir,
           progress_callback, dlFiles,
            dlPc, dlQueue, dlK, dlTrace, dlResults, pmIds, arxivSent, pubmedSent>>

rmVars == <<logExists, consentLog, rmManagers, rmOps, rmPc, rmCall, rmRefs,
            rmLogStart, rmResult, rmBatch, rmBatchResults, rmHistory>>

exVars == <<exEntry, exParsed, exResponse, exAiRefs>>

stVars == <<stFiles, stPc, stName, stLoaded>>

paVars == <<paIndex, paChunks, paMetadata, paQuery, paNeighbours, paContext,
            paSources, paBuild>>

spVars == <<spArgs, spWindows, spChunks>>

ppVars == <<ppPc, ppMaxChars, ppFiles, ppFilename, ppPageNum, ppDocs, ppChunks,
            ppMetadata>>

hyVars == <<hyAi, hyCombine>>

webVars == <<webExtract, webDownload, manualFile, manualAdded, manualCalls>>

vars == <<vsVars, simVars, dlVars, rmVars, exVars, stVars, paVars, spVars,
          ppVars, hyVars, webVars>>

\* What the operations of one component leave alone
OthersVS == <<simVars, dlVars, rmVars, exVars, stVars, paVars, spVars,
    ppVars, hyVars, webVars>>
OthersSim == <<vsVars, dlVars, rmVars, exVars, stVars, paVars, spVars,
    ppVars, hyVars, webVars>>
OthersDL == <<vsVars, simVars, rmVars, exVars, stVars, paVars, spVars,
    ppVars, hyVars, webVars>>
OthersRM == <<vsVars, simVars, exVars, stVars, paVars, spVars,
    ppVars, hyVars, webVars>>
OthersEx == <<vsVars, simVars, dlVars, rmVars, stVars, paVars, spVars,
    ppVars, hyVars, webVars>>
OthersSt == <<simVars, dlVars, rmVars, exVars, paVars, spVars,
    ppVars, hyVars, webVars>>
OthersPA == <<vsVars, simVars, dlVars, rmVars, exVars, stVars, spVars,
    ppVars, hyVars, webVars>>
OthersSp == <<vsVars, simVars, dlVars, rmVars, exVars, stVars, paVars,
    ppVars, hyVars, webVars>>
OthersPP == <<vsVars, simVars, dlVars, rmVars, exVars, stVars, paVars, spVars,
    hyVars, webVars>>
OthersHy == <<vsVars, simVars, dlVars, rmVars, exVars, stVars, paVars, spVars,
    ppVars, webVars>>
OthersWeb == <<vsVars, simVars, dlVars, rmVars, exVars, stVars, paVars, spVars,
    ppVars, hyVars>>

\* ---------------------------------------------------------- Python helpers
Range(s) == {s[k] : k \in 1..Len(s)}

Min(a, b) == IF a < b THEN a ELSE b

\* del s[idx]
Del(s, idx) == SubSeq(s, 1, idx) \o SubSeq(s, idx + 2, Len(s))

\* 2 ** k
RECURSIVE Pow2(_)
Pow2(k) == IF k = 0 THEN 1 ELSE 2 * Pow2(k - 1)

\* s[a:b]
Slice(s, a, b) == SubSeq(s, a + 1, Min(b, Len(s)))

RECURSIVE InsertDesc(_, _)
InsertDesc(x, s) ==
    IF s = <<>> THEN <<x>>
    ELSE IF x >= Head(s) THEN <<x>> \o s
    ELSE <<Head(s)>> \o InsertDesc(x, Tail(s))

RECURSIVE InsertAsc(_, _)
InsertAsc(x, s) ==
    IF s = <<>> THEN <<x>>
    ELSE IF x <= Head(s) THEN <<x>> \o s
    ELSE <<Head(s)>> \o InsertAsc(x, Tail(s))

\* sorted(s, reverse=True)
RECURSIVE SortedReverse(_)
SortedReverse(s) ==
    IF s = <<>> THEN <<>> ELSE InsertDesc(Head(s), SortedReverse(Tail(s)))

\* sorted(s)
RECURSIVE Sorted(_)
Sorted(s) == IF s = <<>> THEN <<>> ELSE InsertAsc(Head(s), Sorted(Tail(s)))

\* ----------------------------------------------- the embedding service
\* A response of ollama.embeddings: an embedding (a list of numbers), a
\* response without the 'embedding' key, or an exception.
Embeddings == {<<1>>, <<2>>, <<1, 1>>}
FailedResponses == {"missing_key", "raises"}

\* ------------------------------------------- create_vector_store: inputs
ChunkLists == {[k \in 1..n |-> k] : n \in 1..MaxChunks}
MetadataFor(chunks) == [k \in 1..Len(chunks) |-> [chunk_index |-> k - 1]]

\* Before create_vector_store is called
VSInit ==
    /\ vsPc = "idle"
    /\ inChunks = <<>>
    /\ inMetadata = <<>>
    /\ batch_size = 0
    /\ all_chunks = <<>>
    /\ metadata = <<>>
    /\ vsI = 0
    /\ vsJ = 0
    /\ attempt = 0
    /\ batch_embeddings = <<>>
    /\ embeddings = <<>>
    /\ failed_indices = <<>>
    /\ vsLog = <<>>
    /\ vsIndex = NoIndex
    /\ valid_chunks = <<>>
    /\ valid_metadata = <<>>

\* create_vector_store(all_chunks, metadata, batch_size) is called with a
\* non-empty chunk list and its parallel metadata list
CreateVectorStore ==
    /\ vsPc = "idle"
    /\ \E chunks \in ChunkLists, bs \in 1..MaxBatch :
        /\ inChunks' = chunks
        /\ inMetadata' = MetadataFor(chunks)
        /\ all_chunks' = chunks
        /\ metadata' = MetadataFor(chunks)
        /\ batch_size' = bs
    /\ vsPc' = "embed"
    /\ UNCHANGED <<vsI, vsJ, attempt, batch_embeddings, embeddings,
                   failed_indices, vsLog, vsIndex, valid_chunks, valid_metadata>>
    /\ UNCHANGED OthersVS

\* batch = all_chunks[i:i+batch_size]
Batch == Slice(all_chunks, vsI, vsI + batch_size)
ChunkIndex == vsI + vsJ

\* The chunk is finished (break): the next chunk of the batch, or, at the end
\* of the batch, embeddings.extend(batch_embeddings) and the next batch, or,
\* after the last batch, the removal of the failed embeddings.
NextChunk(be) ==
    /\ attempt' = 0
    /\ IF vsJ + 1 < Len(Batch)
       THEN /\ vsJ' = vsJ + 1
            /\ batch_embeddings' = be
            /\ UNCHANGED <<vsI, embeddings, vsPc>>
       ELSE /\ vsJ' = 0
            /\ batch_embeddings' = <<>>
            /\ embeddings' = embeddings \o be
            /\ vsI' = vsI + batch_size
            /\ vsPc' = IF vsI + batch_size < Len(all_chunks)
                       THEN "embed" ELSE "remove"

VSFrame ==
    /\ UNCHANGED <<inChunks, inMetadata, batch_size, all_chunks, metadata,
                   vsIndex, valid_chunks, valid_metadata>>
    /\ UNCHANGED OthersVS

\* time.sleep(2 ** attempt)
BackoffLinear(a) == 2 * a
Backoff(a) == Pow2(a)

\* One pass of the retry loop whose response holds an embedding
EmbedSuccess ==
    /\ vsPc = "embed"
    /\ attempt < RetryAttempts
    /\ \E e \in Embeddings :
        /\ vsLog' = Append(vsLog, [chunk |-> ChunkIndex, ev |-> "call",
                                   ok |-> TRUE, emb |-> e, secs |-> 0])
        /\ NextChunk(Append(batch_embeddings, e))
    /\ UNCHANGED failed_indices
    /\ VSFrame

\* One pass whose call fails and which is not the last: sleep and retry
EmbedRetry ==
    /\ vsPc = "embed"
    /\ attempt < RetryAttempts - 1
    /\ \E r \in FailedResponses :
        vsLog' = vsLog \o
            << [chunk |-> ChunkIndex, ev |-> "call", ok |-> FALSE,
                emb |-> None, secs |-> 0],
               [chunk |-> ChunkIndex, ev |-> "sleep", ok |-> FALSE,
                emb |-> None, secs |-> Backoff(attempt)] >>
    /\ attempt' = attempt + 1
    /\ UNCHANGED <<vsI, vsJ, vsPc, batch_embeddings, embeddings, failed_indices>>
    /\ VSFrame

\* The last pass fails: the chunk is marked failed, its slot holds None
EmbedGiveUp ==
    /\ vsPc = "embed"
    /\ attempt = RetryAttempts - 1
    /\ \E r \in FailedResponses :
        vsLog' = Append(vsLog, [chunk |-> ChunkIndex, ev |-> "call",
                                ok |-> FALSE, emb |-> None, secs |-> 0])
    /\ failed_indices' = Append(failed_indices, ChunkIndex)
    /\ NextChunk(Append(batch_embeddings, None))
    /\ VSFrame

\* for idx in sorted(failed_indices, reverse=True)
RemovalOrderAscending(f) == Sorted(f)
RemovalOrder(f) == SortedReverse(f)

\* The body of the removal loop, over the indices in the order given
RECURSIVE RemoveAll(_, _, _, _)
RemoveAll(order, ch, md, em) ==
    IF order = <<>> THEN [chunks |-> ch, metadata |-> md, embeddings |-> em]
    ELSE LET idx == Head(order) IN
         RemoveAll(Tail(order),
                   IF idx < Len(ch) THEN Del(ch, idx) ELSE ch,
                   IF idx < Len(md) THEN Del(md, idx) ELSE md,
                   IF idx < Len(em) THEN Del(em, idx) ELSE em)

\* Remove failed embeddings
RemoveFailed ==
    /\ vsPc = "remove"
    /\ LET r == RemoveAll(RemovalOrder(failed_indices), all_chunks, metadata,
                          embeddings) IN
        /\ all_chunks' = r.chunks
        /\ metadata' = r.metadata
        /\ embeddings' = r.embeddings
    /\ vsPc' = "index"
    /\ UNCHANGED <<inChunks, inMetadata, batch_size, vsI, vsJ, attempt,
                   batch_embeddings, failed_indices, vsLog, vsIndex,
                   valid_chunks, valid_metadata>>
    /\ UNCHANGED OthersVS

\* valid_embeddings = [e for e in embeddings if e is not None]
ValidEmbeddings(em) == SelectSeq(em, LAMBDA e : e # None)

\* consistent_embeddings = [e for e in valid_embeddings if len(e) == dimension]
ConsistentEmbeddingsUnfiltered(valid, dimension) == valid
ConsistentEmbeddings(valid, dimension) ==
    SelectSeq(valid, LAMBDA e : Len(e) = dimension)

\* valid_indices = [i for i, emb in enumerate(embeddings)
\*                  if emb is not None and emb in consistent_embeddings]
RECURSIVE IndicesWhere(_, _, _)
IndicesWhere(em, k, keep) ==
    IF k > Len(em) THEN <<>>
    ELSE (IF em[k] # None /\ em[k] \in keep THEN <<k - 1>> ELSE <<>>)
         \o IndicesWhere(em, k + 1, keep)

ValidIndicesAnyValid(em, consistent) == IndicesWhere(em, 1, Range(ValidEmbeddings(em)))
ValidIndices(em, consistent) == IndicesWhere(em, 1, Range(consistent))

\* [s[i] for i in indices]
Pick(s, indices) == [k \in 1..Len(indices) |-> s[indices[k] + 1]]

\* No valid embedding is left: return None, [], []
NoValidEmbeddings ==
    /\ vsPc = "index"
    /\ ValidEmbeddings(embeddings) = <<>>
    /\ vsIndex' = NoIndex
    /\ valid_chunks' = <<>>
    /\ valid_metadata' = <<>>
    /\ vsPc' = "done"
    /\ UNCHANGED <<inChunks, inMetadata, batch_size, all_chunks, metadata, vsI,
                   vsJ, attempt, batch_embeddings, embeddings, failed_indices,
                   vsLog>>
    /\ UNCHANGED OthersVS

\* The index is created and filled, and the valid chunks and metadata chosen
CreateIndex ==
    /\ vsPc = "index"
    /\ ValidEmbeddings(embeddings) # <<>>
    /\ LET valid == ValidEmbeddings(embeddings)
           dimension == Len(valid[1])
           consistent == ConsistentEmbeddings(valid, dimension)
           valid_indices == ValidIndices(embeddings, consistent)
       IN  /\ \A k \in 1..Len(valid_indices) :
                  /\ valid_indices[k] < Len(all_chunks)
                  /\ valid_indices[k] < Len(metadata)
           /\ vsIndex' = [built |-> TRUE, d |-> dimension, vectors |-> consistent]
           /\ valid_chunks' = Pick(all_chunks, valid_indices)
           /\ valid_metadata' = Pick(metadata, valid_indices)
    /\ vsPc' = "done"
    /\ UNCHANGED <<inChunks, inMetadata, batch_size, all_chunks, metadata, vsI,
                   vsJ, attempt, batch_embeddings, embeddings, failed_indices,
                   vsLog>>
    /\ UNCHANGED OthersVS

\* The index library raises: return None, [], []
IndexCreationFails ==
    /\ vsPc = "index"
    /\ ValidEmbeddings(embeddings) # <<>>
    /\ vsIndex' = NoIndex
    /\ valid_chunks' = <<>>
    /\ valid_metadata' = <<>>
    /\ vsPc' = "done"
    /\ UNCHANGED <<inChunks, inMetadata, batch_size, all_chunks, metadata, vsI,
                   vsJ, attempt, batch_embeddings, embeddings, failed_indices,
                   vsLog>>
    /\ UNCHANGED OthersVS

VSNext ==
    \/ CreateVectorStore
    \/ EmbedSuccess
    \/ EmbedRetry
    \/ EmbedGiveUp
    \/ RemoveFailed
    \/ NoValidEmbeddings
    \/ CreateIndex
    \/ IndexCreationFails

\* ------------------------------------------ create_vector_store: claims
\* What the history says of the chunk at 0-based index c
EventsOf(c) == SelectSeq(vsLog, LAMBDA e : e.chunk = c)
Shape(c) ==
    [k \in 1..Len(EventsOf(c)) |->
        LET e == EventsOf(c)[k] IN
        IF e.ev = "sleep" THEN e.secs ELSE IF e.ok THEN "ok" ELSE "fail"]
\* The embedding obtained for the chunk, None when no call returned one
Obtained(c) ==
    LET okCalls == SelectSeq(EventsOf(c), LAMBDA e : e.ev = "call" /\ e.ok)
    IN  IF okCalls = <<>> THEN None ELSE okCalls[1].emb
OriginalIndices == [k \in 1..Len(inChunks) |-> k - 1]
\* The chunks that did not fail, by original index, in the original order
Survivors == SelectSeq(OriginalIndices, LAMBDA p : Obtained(p) # None)
Embedded == vsPc \in {"index", "done"}

\* C1: after the removal of the failed embeddings, the chunks, metadata and
\* embeddings lists hold exactly the chunks no attempt of which failed, in
\* their original order, each with its own metadata entry and its own
\* embedding; every chunk that failed on all attempts is gone from all three.
C1_FailedChunksExcised ==
    Embedded =>
        /\ all_chunks = [k \in 1..Len(Survivors) |-> inChunks[Survivors[k] + 1]]
        /\ metadata = [k \in 1..Len(Survivors) |-> inMetadata[Survivors[k] + 1]]
        /\ embeddings = [k \in 1..Len(Survivors) |-> Obtained(Survivors[k])]

\* Two chunks failed, one before and one after a chunk that was embedded
C1_Witness ==
    /\ Embedded
    /\ Len(inChunks) >= 3
    /\ Obtained(0) = None
    /\ Obtained(1) # None
    /\ Obtained(2) = None

\* C2: a returned index holds only vectors of its own dimension, and no chunk
\* or metadata entry whose embedding has another length is among the valid
\* chunks and valid metadata returned with it.
C2_DimensionConsistent ==
    (vsPc = "done" /\ vsIndex.built) =>
        /\ \A k \in 1..Len(vsIndex.vectors) : Len(vsIndex.vectors[k]) = vsIndex.d
        /\ \A p \in Range(Survivors) :
              Len(Obtained(p)) # vsIndex.d =>
                  /\ inChunks[p + 1] \notin Range(valid_chunks)
                  /\ inMetadata[p + 1] \notin Range(valid_metadata)

\* An index was returned although one embedding had another length
C2_Witness ==
    /\ vsPc = "done"
    /\ vsIndex.built
    /\ \E p \in Range(Survivors) : Len(Obtained(p)) # vsIndex.d
    /\ Len(valid_chunks) >= 1

\* C3: a returned index holds as many vectors as there are valid chunks and
\* valid metadata entries, and at every position the vector is the embedding
\* obtained for the valid chunk at that position and the metadata entry is the
\* one supplied for that chunk.
C3_PositionalPairing ==
    (vsPc = "done" /\ vsIndex.built) =>
        /\ Len(vsIndex.vectors) = Len(valid_chunks)
        /\ Len(valid_metadata) = Len(valid_chunks)
        /\ \A k \in 1..Len(valid_chunks) :
              \E p \in Range(OriginalIndices) :
                  /\ valid_chunks[k] = inChunks[p + 1]
                  /\ valid_metadata[k] = inMetadata[p + 1]
                  /\ vsIndex.vectors[k] = Obtained(p)

\* An index of two different vectors, built after a failed chunk and an
\* embedding of another length were dropped
C3_Witness ==
    /\ vsPc = "done"
    /\ vsIndex.built
    /\ Len(vsIndex.vectors) >= 2
    /\ vsIndex.vectors[1] # vsIndex.vectors[2]
    /\ Len(valid_chunks) < Len(inChunks)

\* The histories one chunk may have between two steps of the retry loop
RetryShapes ==
    { <<>>, <<"ok">>, <<"fail", 1>>, <<"fail", 1, "ok">>,
      <<"fail", 1, "fail", 2>>, <<"fail", 1, "fail", 2, "ok">>,
      <<"fail", 1, "fail", 2, "fail">> }
ThreeFailures == <<"fail", 1, "fail", 2, "fail">>
\* The chunk is finished: an embedding was returned, or the third call failed
Finished(c) ==
    /\ Shape(c) # <<>>
    /\ Shape(c)[Len(Shape(c))] = "ok" \/ Shape(c) = ThreeFailures

\* C4: a chunk gets at most three embedding calls, none after the first
\* response that holds an embedding; a failed first call is followed by a
\* sleep of 1 s, a failed second call by a sleep of 2 s, a failed third call
\* by no sleep; a chunk is marked failed exactly when its third call failed,
\* and the next chunk is called only once the chunk before it is finished.
C4_BoundedRetryBackoff ==
    /\ \A c \in Range(OriginalIndices) :
          /\ Shape(c) \in RetryShapes
          /\ (c \in Range(failed_indices)) <=> (Shape(c) = ThreeFailures)
          /\ (c > 0 /\ Shape(c) # <<>>) => Finished(c - 1)
    /\ \A k \in 1..Len(vsLog) - 1 : vsLog[k].chunk <= vsLog[k + 1].chunk

\* A chunk failed three times, after both sleeps, and the next chunk was called
C4_Witness ==
    \E c \in Range(OriginalIndices) :
        /\ Shape(c) = ThreeFailures
        /\ c + 1 \in Range(OriginalIndices)
        /\ Shape(c + 1) # <<>>

\* ------------------------- build_pdf_vector_store and load_vector_store
IndexNames == {"default_index", "old_index"}
\* os.path.join(self.vector_store_dir, ...)
IndexPath(index_name) == <<index_name, ".faiss">>
MetadataPath(index_name) == <<index_name, "_metadata.pkl">>
Paths == {IndexPath(n) : n \in IndexNames} \cup {MetadataPath(n) : n \in IndexNames}

\* File contents: no such file, or a file a failed write left unreadable
Missing == [kind |-> "missing"]
Corrupt == [kind |-> "corrupt"]

\* The vectors of a flat index are stored as one array of ntotal * d numbers
RECURSIVE FlattenReversed(_)
FlattenReversed(vectors) ==
    IF vectors = <<>> THEN <<>>
    ELSE FlattenReversed(Tail(vectors)) \o Head(vectors)
RECURSIVE Flatten(_)
Flatten(vectors) ==
    IF vectors = <<>> THEN <<>> ELSE Head(vectors) \o Flatten(Tail(vectors))

\* faiss.write_index(index, index_path): the content of the file
WriteIndex(index) ==
    [kind |-> "index", d |-> index.d, ntotal |-> Len(index.vectors),
     xb |-> Flatten(index.vectors)]

\* faiss.read_index(index_path) on a readable index file
ReadIndex(file) ==
    [built |-> TRUE, d |-> file.d,
     vectors |-> [k \in 1..file.ntotal |->
                    SubSeq(file.xb, (k - 1) * file.d + 1, k * file.d)]]

\* pickle.dump({"chunks": valid_chunks, "metadata": valid_metadata}, f)
PickleDump(chunks, meta) ==
    [kind |-> "pickle", chunks |-> chunks, metadata |-> meta]

\* The store an earlier run of the program left under the name "old_index"
EarlierFiles ==
    [p \in Paths |->
        IF p = IndexPath("old_index")
        THEN [kind |-> "index", d |-> 1, ntotal |-> 1, xb |-> <<2>>]
        ELSE IF p = MetadataPath("old_index")
        THEN PickleDump(<<9>>, <<[chunk_index |-> 0]>>)
        ELSE Missing]

NotLoaded == [called |-> FALSE, name |-> "", after |-> "", index |-> NoIndex,
              chunks |-> <<>>, metadata |-> <<>>, failed |-> FALSE]

StInit ==
    /\ stFiles = EarlierFiles
    /\ stPc = "idle"
    /\ stName = ""
    /\ stLoaded = NotLoaded

\* build_pdf_vector_store: create_vector_store has returned an index;
\* faiss.write_index writes the index file, or raises out of the build
SaveIndex ==
    /\ vsPc = "done"
    /\ vsIndex.built
    /\ stPc = "idle"
    /\ \E index_name \in IndexNames :
        /\ stName' = index_name
        /\ \/ /\ stFiles' = [stFiles EXCEPT ![IndexPath(index_name)] =
                                               WriteIndex(vsIndex)]
              /\ stPc' = "metadata"
           \/ /\ \E left \in {stFiles[IndexPath(index_name)], Corrupt} :
                    stFiles' = [stFiles EXCEPT ![IndexPath(index_name)] = left]
              /\ stPc' = "raised"
    /\ UNCHANGED stLoaded
    /\ UNCHANGED vsVars
    /\ UNCHANGED OthersSt

\* build_pdf_vector_store: the metadata file is written and the build
\* returns index, valid_chunks, valid_metadata; or the write raises
SaveMetadata ==
    /\ stPc = "metadata"
    /\ \/ /\ stFiles' = [stFiles EXCEPT ![MetadataPath(stName)] =
                                           PickleDump(valid_chunks, valid_metadata)]
          /\ stPc' = "returned"
       \/ /\ \E left \in {stFiles[MetadataPath(stName)], Corrupt} :
                stFiles' = [stFiles EXCEPT ![MetadataPath(stName)] = left]
          /\ stPc' = "raised"
    /\ UNCHANGED <<stName, stLoaded>>
    /\ UNCHANGED vsVars
    /\ UNCHANGED OthersSt

\* load_vector_store(index_name): both files are read; a missing or
\* unreadable file raises and None, None, None is returned
LoadVectorStore(files, index_name) ==
    LET index_file == files[IndexPath(index_name)]
        metadata_file == files[MetadataPath(index_name)]
    IN  IF index_file.kind = "index" /\ metadata_file.kind = "pickle"
        THEN [index |-> ReadIndex(index_file), chunks |-> metadata_file.chunks,
              metadata |-> metadata_file.metadata, failed |-> FALSE]
        ELSE [index |-> NoIndex, chunks |-> <<>>, metadata |-> <<>>,
              failed |-> TRUE]

\* load_vector_store(index_name) is called while no build is running
LoadVectorStoreCall ==
    /\ ~stLoaded.called
    /\ \/ vsPc = "idle"
       \/ vsPc = "done" /\ ~vsIndex.built
       \/ stPc \in {"returned", "raised"}
    /\ \E index_name \in IndexNames :
        LET loaded == LoadVectorStore(stFiles, index_name) IN
        stLoaded' = [called |-> TRUE, name |-> index_name, after |-> stPc,
                     index |-> loaded.index, chunks |-> loaded.chunks,
                     metadata |-> loaded.metadata, failed |-> loaded.failed]
    /\ UNCHANGED <<stFiles, stPc, stName>>
    /\ UNCHANGED vsVars
    /\ UNCHANGED OthersSt

StNext == VSNext \/ SaveIndex \/ SaveMetadata \/ LoadVectorStoreCall

\* C15: when build_pdf_vector_store has returned an index and
\* load_vector_store is then called with the same index_name, it returns an
\* index with the same vectors in the same order and the valid_chunks and
\* valid_metadata lists the build returned.
C15_PersistLoadRoundTrip ==
    (stLoaded.called /\ stLoaded.after = "returned" /\ stLoaded.name = stName) =>
        /\ ~stLoaded.failed
        /\ stLoaded.index = vsIndex
        /\ stLoaded.chunks = valid_chunks
        /\ stLoaded.metadata = valid_metadata

\* A store of two vectors, built from three chunks of which one failed,
\* was saved over the earlier store and loaded again
C15_Witness ==
    /\ stLoaded.called
    /\ stLoaded.after = "returned"
    /\ stLoaded.name = "old_index"
    /\ stName = "old_index"
    /\ Len(stLoaded.index.vectors) = 2
    /\ Len(inChunks) = 3

\* What load_vector_store returned is the store of one build: the one an
\* earlier run left, or the one this run built
LoadedOneBuild ==
    \/ /\ stLoaded.index = ReadIndex(EarlierFiles[IndexPath("old_index")])
       /\ stLoaded.chunks = EarlierFiles[MetadataPath("old_index")].chunks
       /\ stLoaded.metadata = EarlierFiles[MetadataPath("old_index")].metadata
    \/ /\ stLoaded.index = vsIndex
       /\ stLoaded.chunks = valid_chunks
       /\ stLoaded.metadata = valid_metadata

\* C28: the index file and the metadata file of an index_name always
\* describe the same build, also after a build that failed between the two
\* writes: what load_vector_store returns is an index with the chunks and
\* metadata of the same build, of as many entries as the index has vectors.
C28_IndexAndMetadataOfOneBuild ==
    (stLoaded.called /\ ~stLoaded.failed) =>
        /\ Len(stLoaded.index.vectors) = Len(stLoaded.chunks)
        /\ Len(stLoaded.index.vectors) = Len(stLoaded.metadata)
        /\ LoadedOneBuild

\* ------------------------------- ReferenceDownloader._is_similar_paper
\* A string is a sequence of tokens: a word, or the blank between two words.
\* "" is <<>>, a string of white space only is <<" ">>.
Words == {"deep", "Deep", "nets", "for", "2020"}
NameTokens == {"J", "Smith", "Lee"}
Blank == " "

\* str.lower(), token by token
LowerToken(w) ==
    CASE w = "Deep" -> "deep"
      [] w = "J" -> "j"
      [] w = "Smith" -> "smith"
      [] w = "Lee" -> "lee"
      [] OTHER -> w
Lower(s) == [k \in 1..Len(s) |-> LowerToken(s[k])]

\* str.split(): the words, without the white space
Split(s) == SelectSeq(s, LAMBDA t : t # Blank)

\* a in b, for strings
IsSubstring(a, b) ==
    \E i \in 1..(Len(b) + 1) :
        /\ i + Len(a) - 1 <= Len(b)
        /\ SubSeq(b, i, i + Len(a) - 1) = a

\* The words joined by single blanks
RECURSIVE Join(_)
Join(ws) ==
    IF Len(ws) <= 1 THEN ws ELSE <<Head(ws), Blank>> \o Join(Tail(ws))

Titles(n) ==
    {<<>>, <<Blank>>} \cup {Join(ws) : ws \in UNION {[1..k -> Words] : k \in 1..n}}
ReferenceTitles == Titles(MaxTitleWords)
CandidateTitles ==
    Titles(1) \cup {Join(<<"deep", "nets">>), Join(<<"nets", "for">>)}
\* reference.year: a string, empty when unknown
Years == {<<>>, <<"2020">>}
\* reference.authors split at its commas; <<>> is the empty string
ReferenceAuthors == {<<>>, << <<"Smith">> >>}
\* authors: the names of the candidate paper
CandidateAuthors == {<<>>, << <<"J", Blank, "Smith">> >>, << <<"Lee">> >>}

SimInit ==
    /\ simPc = "idle"
    /\ simArgs = [ref_title |-> <<>>, ref_year |-> <<>>, ref_authors |-> <<>>,
                  title |-> <<>>, authors |-> <<>>]
    /\ simResult = FALSE

\* overlap = len(ref_words & title_words) / len(ref_words); overlap < 0.3
\* (k / n < 0.3 in floating point exactly when 10 k < 3 n, for these sizes)
OverlapBelowThresholdOfCandidate(ref_words, title_words) ==
    /\ title_words # {}
    /\ 10 * Cardinality(ref_words \cap title_words) < 3 * Cardinality(title_words)
OverlapBelowThreshold(ref_words, title_words) ==
    10 * Cardinality(ref_words \cap title_words) < 3 * Cardinality(ref_words)

\* for author in authors: for ref_author in ref_authors: substring either way
AuthorMatch(ref_authors, authors) ==
    \E a \in Range(authors), r \in Range(ref_authors) :
        \/ IsSubstring(Lower(r), Lower(a))
        \/ IsSubstring(Lower(a), Lower(r))

IsSimilarPaper(ref_title, ref_year, ref_authors, title, authors) ==
    IF title = <<>> \/ ref_title = <<>> THEN FALSE
    ELSE LET ref_words == Range(Split(Lower(ref_title)))
             title_words == Range(Split(Lower(title)))
         IN  IF /\ Cardinality(ref_words) > 0
                /\ OverlapBelowThreshold(ref_words, title_words)
             THEN FALSE
             ELSE IF ref_year # <<>> /\ IsSubstring(ref_year, title) THEN TRUE
             ELSE IF /\ authors # <<>>
                     /\ ref_authors # <<>>
                     /\ AuthorMatch(ref_authors, authors)
                  THEN TRUE
             ELSE TRUE

\* _is_similar_paper(reference, title, authors) is called and returns
IsSimilarPaperCall ==
    /\ simPc = "idle"
    /\ \E rt \in ReferenceTitles, ry \in Years, ra \in ReferenceAuthors,
          t \in CandidateTitles, a \in CandidateAuthors :
        /\ simArgs' = [ref_title |-> rt, ref_year |-> ry, ref_authors |-> ra,
                       title |-> t, authors |-> a]
        /\ simResult' = IsSimilarPaper(rt, ry, ra, t, a)
    /\ simPc' = "returned"
    /\ UNCHANGED OthersSim

SimNext == IsSimilarPaperCall

\* The distinct lower-cased words of a title
DistinctWords(t) == {LowerToken(t[k]) : k \in {j \in 1..Len(t) : t[j] # Blank}}
SharedWords == DistinctWords(simArgs.ref_title) \cap DistinctWords(simArgs.title)

\* C6: _is_similar_paper returns False when either title is the empty string
\* or fewer than 30% of the distinct lower-cased words of the reference title
\* occur in the candidate title, and True in every other case, whatever the
\* year and the authors are.
C6_AcceptsAtThirtyPercent ==
    simPc = "returned" =>
        (simResult <=>
            /\ simArgs.title # <<>>
            /\ simArgs.ref_title # <<>>
            /\ 10 * Cardinality(SharedWords)
                   >= 3 * Cardinality(DistinctWords(simArgs.ref_title)))

\* One word of four is shared (25%): rejected, although the author matches
C6_Witness ==
    /\ simPc = "returned"
    /\ Cardinality(DistinctWords(simArgs.ref_title)) = 4
    /\ Cardinality(SharedWords) = 1
    /\ simArgs.ref_authors # <<>>
    /\ simArgs.authors = << <<"J", Blank, "Smith">> >>
    /\ ~simResult

\* ---------------------------------------------------- ReferenceDownloader
\* A reference: its title and reference.authors up to the first comma.
\* NoneTitle is a title that is not a string (_generate_filename raises on
\* it), NotAString an authors field that is not one (authors.split raises).
NoneTitle == "<None>"
NotAString == <<"<list>">>
References ==
    { [title |-> "A", authors |-> <<"J", Blank, "Smith">>],
      [title |-> "", authors |-> <<"Smith">>],
      [title |-> "B", authors |-> NotAString],
      [title |-> NoneTitle, authors |-> <<>>] }
ReferenceLists == UNION {[1..n -> References] : n \in 0..MaxRefs}

DefaultDir == "./downloaded_references"

search_methodsPubmedFirst ==
    <<"_search_pubmed", "_search_arxiv", "_search_google_scholar">>
search_methods == <<"_search_arxiv", "_search_pubmed", "_search_google_scholar">>

EmptyResults(n) ==
    [total_references |-> n, successful_downloads |-> 0, failed_downloads |-> 0,
     skipped_downloads |-> 0, download_details |-> <<>>]

\* After __init__; time.time() is far beyond both delays
DLInit ==
    /\ now = arxiv_delay + pubmed_delay
    /\ last_arxiv_request = 0
    /\ last_pubmed_request = 0
    /\ download_dir = DefaultDir
    /\ progress_callback = FALSE
    /\ dlFiles = {}
    /\ dlPc = "idle"
    /\ dlQueue = <<>>
    /\ dlK = 0
    /\ dlTrace = <<>>
    /\ dlResults = EmptyResults(0)
    /\ pmIds = 0
    /\ arxivSent = <<>>
    /\ pubmedSent = <<>>

\* _generate_filename: the cleaned title, the year and ".pdf"
GenerateFilename(ref) == <<ref.title, "unknown", ".pdf">>
FilePath(ref) == <<download_dir, GenerateFilename(ref)>>

\* The query parts of _search_arxiv and _search_pubmed: the title if there is
\* one, the last name of the first author if that author has a blank
HasQueryParts(ref) ==
    \/ ref.title # ""
    \/ (ref.authors # <<>> /\ Blank \in Range(ref.authors))

\* The last two send times, after a request at time t
Sent(history, t) ==
    IF history = <<>> THEN <<t>> ELSE <<history[Len(history)], t>>

\* _rate_limit_arxiv / _rate_limit_pubmed: the time after the sleep, which is
\* also the new last_..._request
AfterRateLimit(current_time, last_request, delay) ==
    LET time_since_last == current_time - last_request IN
    IF time_since_last < delay
    THEN current_time + (delay - time_since_last)
    ELSE current_time

\* The dictionary download_single_reference returns, or the one the loop
\* builds when it raised: file_path is the file's path for 'success' and
\* 'skipped', None otherwise
DownloadResult(ref, status) ==
    [reference |-> ref, status |-> status,
     file_path |-> IF status \in {"success", "skipped"} THEN FilePath(ref)
                   ELSE None]

CountedPrepending(results, ref, status) ==
    [results EXCEPT
        !.download_details = <<DownloadResult(ref, status)>> \o @,
        !.successful_downloads = IF status = "success" THEN @ + 1 ELSE @,
        !.skipped_downloads = IF status = "skipped" THEN @ + 1 ELSE @,
        !.failed_downloads =
            IF status \notin {"success", "skipped"} THEN @ + 1 ELSE @]
\* search_and_download_references: one more detail entry and its counter
Counted(results, ref, status) ==
    [results EXCEPT
        !.download_details = Append(@, DownloadResult(ref, status)),
        !.successful_downloads = IF status = "success" THEN @ + 1 ELSE @,
        !.skipped_downloads = IF status = "skipped" THEN @ + 1 ELSE @,
        !.failed_downloads =
            IF status \notin {"success", "skipped"} THEN @ + 1 ELSE @]

\* download_single_reference returns (or raises: status "error"); the loop of
\* search_and_download_references goes on with the next reference
Return(status) ==
    /\ dlResults' = Counted(dlResults, Head(dlQueue), status)
    /\ dlQueue' = Tail(dlQueue)
    /\ dlPc' = IF Tail(dlQueue) = <<>> THEN "done" ELSE "check"
    /\ dlK' = 0

\* The method yielded no saved file: the next search method, or 'failed'
NextMethod ==
    IF dlK < Len(search_methods)
    THEN /\ dlK' = dlK + 1
         /\ dlPc' = "search"
         /\ UNCHANGED <<dlQueue, dlResults>>
    ELSE Return("failed")

Invoked(name) == Append(dlTrace, [method |-> name, saved |-> FALSE])

\* search_and_download_references(references, progress_callback) is called
SearchAndDownload ==
    /\ dlPc = "idle"
    /\ \E refs \in ReferenceLists, callback \in BOOLEAN :
        /\ dlQueue' = refs
        /\ progress_callback' = callback
        /\ dlResults' = EmptyResults(Len(refs))
        /\ dlPc' = IF refs = <<>> THEN "done" ELSE "check"
    /\ UNCHANGED <<now, last_arxiv_request, last_pubmed_request, download_dir,
                   dlFiles, dlK, dlTrace, pmIds, arxivSent, pubmedSent>>
    /\ UNCHANGED OthersDL

ExistingDownloadNever(ref) == None
\* _check_existing_download: the file's path if it exists, None otherwise
ExistingDownload(ref) ==
    IF FilePath(ref) \in dlFiles THEN FilePath(ref) ELSE None

\* The loop body up to _check_existing_download: with a callback the
\* progress message is built from reference.title[:50] outside the try, and
\* a title that is None makes the call raise
CheckExisting ==
    /\ dlPc = "check"
    /\ dlTrace' = <<>>
    /\ LET ref == Head(dlQueue) IN
       IF progress_callback /\ ref.title = NoneTitle
       THEN /\ dlPc' = "raised"
            /\ UNCHANGED <<dlQueue, dlResults, dlK>>
       ELSE IF ref.title = NoneTitle
       THEN Return("error")
       ELSE IF ExistingDownload(ref) # None
       THEN Return("skipped")
       ELSE /\ dlK' = 1
            /\ dlPc' = "search"
            /\ UNCHANGED <<dlQueue, dlResults>>
    /\ UNCHANGED <<now, last_arxiv_request, last_pubmed_request, download_dir,
                   progress_callback,
                   dlFiles, pmIds, arxivSent, pubmedSent>>
    /\ UNCHANGED OthersDL

\* _search_arxiv: the rate limit, the query, one request to the arXiv API
SearchArxiv ==
    /\ dlPc = "search"
    /\ search_methods[dlK] = "_search_arxiv"
    /\ dlTrace' = Invoked("_search_arxiv")
    /\ LET ref == Head(dlQueue)
           sent == AfterRateLimit(now, last_arxiv_request, arxiv_delay)
       IN  /\ last_arxiv_request' = sent
           /\ IF ref.authors = NotAString \/ ~HasQueryParts(ref)
              THEN \* authors.split raises, or return None: no request
                   /\ now' = sent
                   /\ UNCHANGED arxivSent
                   /\ NextMethod
              ELSE /\ arxivSent' = Sent(arxivSent, sent)
                   /\ now' = sent
                   /\ \/ /\ dlPc' = "download"
                         /\ UNCHANGED <<dlK, dlQueue, dlResults>>
                      \/ NextMethod
    /\ UNCHANGED <<last_pubmed_request, download_dir,
                   progress_callback, dlFiles, pmIds, pubmedSent>>
    /\ UNCHANGED OthersDL

\* _search_pubmed up to its first request: the rate limit, the query, esearch
SearchPubmed ==
    /\ dlPc = "search"
    /\ search_methods[dlK] = "_search_pubmed"
    /\ dlTrace' = Invoked("_search_pubmed")
    /\ LET ref == Head(dlQueue)
           sent == AfterRateLimit(now, last_pubmed_request, pubmed_delay)
       IN  /\ last_pubmed_request' = sent
           /\ IF ref.authors = NotAString \/ ~HasQueryParts(ref)
              THEN /\ now' = sent
                   /\ UNCHANGED <<pubmedSent, pmIds>>
                   /\ NextMethod
              ELSE /\ pubmedSent' = Sent(pubmedSent, sent)
                   /\ now' = sent
                   /\ \E ids \in 0..MaxIds :
                        \* ids = 0: the request failed or found nothing
                        IF ids = 0
                        THEN UNCHANGED pmIds /\ NextMethod
                        ELSE /\ pmIds' = Min(ids, PaperIdLimit)
                             /\ dlPc' = "fetch"
                             /\ UNCHANGED <<dlK, dlQueue, dlResults>>
    /\ UNCHANGED <<last_arxiv_request, download_dir,
                   progress_callback, dlFiles, arxivSent>>
    /\ UNCHANGED OthersDL

\* The loop of _search_pubmed goes to the next paper id, or returns None
NextPaperId ==
    IF pmIds > 1
    THEN /\ pmIds' = pmIds - 1
         /\ dlPc' = "fetch"
         /\ UNCHANGED <<dlK, dlQueue, dlResults>>
    ELSE /\ pmIds' = 0
         /\ NextMethod

\* _search_pubmed: efetch for one paper id
PubmedFetch ==
    /\ dlPc = "fetch"
    /\ pubmedSent' = Sent(pubmedSent, now)
    /\ \/ \* the request fails: return None
          pmIds' = 0 /\ NextMethod
       \/ \* no article, or not a similar paper
          NextPaperId
       \/ \* a similar paper: _find_pmc_pdf
          /\ dlPc' = "pmc"
          /\ UNCHANGED <<pmIds, dlK, dlQueue, dlResults>>
    /\ UNCHANGED <<now, last_arxiv_request, last_pubmed_request, download_dir,
                   progress_callback,
                   dlFiles, dlTrace, arxivSent>>
    /\ UNCHANGED OthersDL

\* _find_pmc_pdf: esearch in PubMed Central for one paper id
FindPmcPdf ==
    /\ dlPc = "pmc"
    /\ pubmedSent' = Sent(pubmedSent, now)
    /\ \/ \* a PMC id: _search_pubmed returns the PDF URL
          /\ pmIds' = 0
          /\ dlPc' = "download"
          /\ UNCHANGED <<dlK, dlQueue, dlResults>>
       \/ \* none, or the request fails
          NextPaperId
    /\ UNCHANGED <<now, last_arxiv_request, last_pubmed_request, download_dir,
                   progress_callback,
                   dlFiles, dlTrace, arxivSent>>
    /\ UNCHANGED OthersDL

\* _search_google_scholar: a placeholder that returns None
SearchScholar ==
    /\ dlPc = "search"
    /\ search_methods[dlK] = "_search_google_scholar"
    /\ dlTrace' = Invoked("_search_google_scholar")
    /\ NextMethod
    /\ UNCHANGED <<now, last_arxiv_request, last_pubmed_request, download_dir,
                   progress_callback,
                   dlFiles, pmIds, arxivSent, pubmedSent>>
    /\ UNCHANGED OthersDL

\* _download_pdf for the URL a method returned
DownloadPdf ==
    /\ dlPc = "download"
    /\ \/ \* the file is written
          /\ dlFiles' = dlFiles \cup {FilePath(Head(dlQueue))}
          /\ dlTrace' = [dlTrace EXCEPT ![Len(dlTrace)].saved = TRUE]
          /\ Return("success")
       \/ \* the request fails or the answer is no PDF: None
          /\ UNCHANGED <<dlFiles, dlTrace>>
          /\ NextMethod
       \/ \* the file is opened and the stream breaks off: None, and the
          \* file that was begun stays
          /\ dlFiles' = dlFiles \cup {FilePath(Head(dlQueue))}
          /\ UNCHANGED dlTrace
          /\ NextMethod
    /\ UNCHANGED <<now, last_arxiv_request, last_pubmed_request, download_dir,
                   progress_callback,
                   pmIds, arxivSent, pubmedSent>>
    /\ UNCHANGED OthersDL

\* A second passes while the downloader waits for an answer or computes
TimePasses ==
    /\ dlPc \notin {"idle", "done", "raised"}
    /\ now < arxiv_delay + pubmed_delay + MaxClock
    /\ now' = now + 1
    /\ UNCHANGED <<last_arxiv_request, last_pubmed_request, download_dir,
                   progress_callback, dlFiles,
                   dlPc, dlQueue, dlK, dlTrace, dlResults, pmIds, arxivSent,
                   pubmedSent>>
    /\ UNCHANGED OthersDL

DLSteps ==
    \/ CheckExisting
    \/ SearchArxiv
    \/ SearchPubmed
    \/ PubmedFetch
    \/ FindPmcPdf
    \/ SearchScholar
    \/ DownloadPdf

DLNext == SearchAndDownload \/ DLSteps \/ TimePasses

\* ------------------------------------------ ReferenceDownloader: claims
TraceMethods == [k \in 1..Len(dlTrace) |-> dlTrace[k].method]
IsPrefix(a, b) == Len(a) <= Len(b) /\ SubSeq(b, 1, Len(a)) = a
\* download_single_reference has returned and no other call has begun
JustReturned ==
    dlPc \in {"check", "done"} /\ dlResults.download_details # <<>>
LastStatus ==
    dlResults.download_details[Len(dlResults.download_details)].status

\* C5: download_single_reference invokes the search methods in the order
\* arXiv, PubMed, generic; a method is invoked only while no earlier one has
\* yielded a saved file; a saved file ends the call with 'success'; 'failed'
\* is returned only after all three were invoked and none yielded a file.
C5_CascadeStopsAtFirstSuccess ==
    /\ IsPrefix(TraceMethods,
                <<"_search_arxiv", "_search_pubmed", "_search_google_scholar">>)
    /\ \A k \in 1..Len(dlTrace) :
          dlTrace[k].saved =>
              k = Len(dlTrace) /\ JustReturned /\ LastStatus = "success"
    /\ (JustReturned /\ LastStatus = "success") =>
          dlTrace # <<>> /\ dlTrace[Len(dlTrace)].saved
    /\ (JustReturned /\ LastStatus = "failed") =>
          Len(dlTrace) = 3 /\ \A k \in 1..3 : ~dlTrace[k].saved

\* arXiv yielded no file, PubMed did, and the generic search was not invoked
C5_Witness ==
    /\ JustReturned
    /\ LastStatus = "success"
    /\ TraceMethods = <<"_search_arxiv", "_search_pubmed">>

\* Two consecutive requests to one API are at least its delay apart
ArxivIntervalKept ==
    Len(arxivSent) = 2 => arxivSent[2] - arxivSent[1] >= arxiv_delay
PubmedIntervalKept ==
    Len(pubmedSent) = 2 => pubmedSent[2] - pubmedSent[1] >= pubmed_delay

\* C10: any two consecutive requests to the arXiv API are at least 3 seconds
\* apart and any two consecutive requests to the PubMed API are at least
\* 1 second apart.
C10_MinimumIntervals == ArxivIntervalKept /\ PubmedIntervalKept

\* One step of search_and_download_references: the call begins with no
\* detail, or the reference in hand stays the same, or the reference in hand
\* is finished, its result is appended and the next one is taken
SequentialStep ==
    LET details == dlResults.download_details
        details2 == dlResults'.download_details
    IN  \/ /\ dlPc = "idle"
           /\ details2 = <<>>
           /\ dlResults'.total_references = Len(dlQueue')
        \/ /\ dlPc # "idle"
           /\ details2 = details
           /\ dlQueue' = dlQueue
        \/ /\ dlPc # "idle"
           /\ dlQueue # <<>>
           /\ dlQueue' = Tail(dlQueue)
           /\ details2 = Append(details, details2[Len(details2)])
           /\ details2[Len(details2)].reference = Head(dlQueue)

\* Details and references left add up to the list that was passed
InListOrder ==
    dlPc # "idle" =>
        Len(dlResults.download_details) + Len(dlQueue) = dlResults.total_references

\* C11: search_and_download_references handles one reference at a time in
\* list order: the only reference worked on is the first one left, the next
\* is taken only when its result has been appended, so download_details[i]
\* is the result for references[i].
C11_SequentialInListOrder == []InListOrder /\ [][SequentialStep]_vars

\* Two different references were handled, the first failed and the second
\* raised
C11_Witness ==
    /\ dlPc = "done"
    /\ Len(dlResults.download_details) = 2
    /\ dlResults.download_details[1].status = "failed"
    /\ dlResults.download_details[2].status = "error"

\* A step from a state in which the file of the reference at work exists
\* at the existence check: no request is sent, no file is touched, no search
\* method is entered, and the result that is appended is 'skipped' with the
\* path of that file
SkippedStep ==
    LET ref == Head(dlQueue) IN
    (dlPc = "check" /\ ref.title # NoneTitle /\ FilePath(ref) \in dlFiles) =>
        /\ UNCHANGED <<arxivSent, pubmedSent, dlFiles>>
        /\ dlPc' \in {"check", "done"}
        /\ dlTrace' \in {dlTrace, <<>>}
        /\ dlResults' # dlResults =>
              /\ dlTrace' = <<>>
              /\ dlResults'.download_details =
                    Append(dlResults.download_details,
                           [reference |-> ref, status |-> "skipped",
                            file_path |-> FilePath(ref)])

\* The same reference directly after its successful download is skipped
\* with the same path
SkippedAgain ==
    LET details == dlResults.download_details IN
    \A i \in 1..(Len(details) - 1) :
        (/\ details[i].status = "success"
         /\ details[i + 1].reference = details[i].reference) =>
            /\ details[i + 1].status = "skipped"
            /\ details[i + 1].file_path = details[i].file_path
            /\ details[i].file_path \in dlFiles

\* C21: a reference whose target file exists in the download directory is
\* skipped: status 'skipped' with that file's path, no search method is
\* invoked and no request is sent; so the same reference directly after its
\* successful download is 'skipped' with the same path and the file stays.
C21_ExistingFileSkipped == []SkippedAgain /\ [][SkippedStep]_vars

\* A reference was downloaded and then skipped with the path of its file
C21_Witness ==
    /\ dlPc = "done"
    /\ Len(dlResults.download_details) = 2
    /\ dlResults.download_details[1].status = "success"
    /\ dlResults.download_details[2].status = "skipped"
    /\ dlResults.download_details[2].file_path =
          dlResults.download_details[1].file_path

\* The number of details of one of the given statuses
DetailsOf(statuses) ==
    Cardinality({i \in 1..Len(dlResults.download_details) :
                    dlResults.download_details[i].status \in statuses})

Users == {"u1", "u2"}
\* The user of process_pdf_with_consent and batch_process_pdfs; the log may
\* hold records of the other user
ProcessUsers == {"u1"}
Sessions == {"s1"}
Pdfs == {"a.pdf", "b.pdf"}
CustomDir == "./custom"
NoPath == "<None>"
NoUser == "<None>"
\* selected_reference_indices: NoSelection is None
NoSelection == <<-1>>
Selections == {NoSelection, <<>>, <<0>>, <<1, 2>>}
\* What extract_references_from_pdf may return (the empty list also on error)
ExtractedLists ==
    { <<>>,
      << [title |-> "A", authors |-> <<"J", Blank, "Smith">>] >>,
      << [title |-> "", authors |-> <<"Smith">>],
         [title |-> "A", authors |-> <<"J", Blank, "Smith">>] >> }
Limits == {0, 1, 100}
\* No call of get_consent_history has returned
NoHistory == [called |-> FALSE, user_id |-> NoUser, limit |-> 0,
              records |-> <<>>]

NoCall == [pdf |-> "", user |-> "", session |-> "", consent |-> FALSE,
           selected |-> NoSelection, custom |-> NoPath]
NoResult == [pdf_filename |-> "", references_extracted |-> 0,
             consent_given |-> FALSE, downloaded |-> FALSE,
             download_results |-> EmptyResults(0), error |-> FALSE]
NoBatchResults ==
    [total_pdfs |-> 0, processed_pdfs |-> 0, successful_pdfs |-> 0,
     failed_pdfs |-> 0, total_references_extracted |-> 0,
     total_references_downloaded |-> 0]

\* A record that an earlier run of the program left in the log file
EarlierRecord ==
    [timestamp |-> 0, user_id |-> "u2", pdf_filename |-> "b.pdf",
     total_references |-> 1, selected_references |-> 0,
     download_path |-> DefaultDir, consent_given |-> FALSE,
     session_id |-> "s1"]

\* Before the first manager is constructed: no log file yet, or the log
\* file of an earlier run
RMInit ==
    /\ logExists \in BOOLEAN
    /\ consentLog = IF logExists THEN <<EarlierRecord>> ELSE <<>>
    /\ rmManagers = 0
    /\ rmOps = 0
    /\ rmPc = "idle"
    /\ rmCall = NoCall
    /\ rmRefs = <<>>
    /\ rmLogStart = 0
    /\ rmResult = NoResult
    /\ rmBatch = <<>>
    /\ rmBatchResults = NoBatchResults
    /\ rmHistory = NoHistory

\* A call on a constructed manager; rmOps counts the calls made since the
\* first manager was constructed
CanCall == rmPc = "idle" /\ rmManagers > 0 /\ rmOps < MaxOps

\* What the previous call returned is gone when the next call begins
NoDownloaderResults == dlTrace' = <<>> /\ dlResults' = EmptyResults(0)
NoProcessResults ==
    /\ rmCall' = NoCall
    /\ rmRefs' = <<>>
    /\ rmLogStart' = 0
    /\ rmResult' = NoResult

\* _init_consent_log: the lines of the log file after it
InitConsentLogTruncating(exists, log) == <<>>
InitConsentLog(exists, log) == IF ~exists THEN <<>> ELSE log

\* ReferenceManager(config): a new extractor and downloader, the log file
\* created if it does not exist
NewManager ==
    /\ rmPc = "idle"
    /\ rmManagers = 0 \/ rmOps < MaxOps
    /\ rmOps' = IF rmManagers = 0 THEN rmOps ELSE rmOps + 1
    /\ rmManagers' = Min(rmManagers + 1, 2)
    /\ consentLog' = InitConsentLog(logExists, consentLog)
    /\ logExists' = TRUE
    /\ last_arxiv_request' = 0
    /\ last_pubmed_request' = 0
    /\ download_dir' = DefaultDir
    /\ progress_callback' = FALSE
    /\ NoDownloaderResults
    /\ NoProcessResults
    /\ rmBatchResults' = NoBatchResults
    /\ rmHistory' = NoHistory
    /\ UNCHANGED <<now, dlFiles, dlPc, dlQueue, dlK, pmIds, arxivSent, pubmedSent>>
    /\ UNCHANGED <<rmPc, rmBatch>>
    /\ UNCHANGED OthersRM

\* log_consent: the lines of the log file after it; a failed write is logged
\* as an error and leaves the file as it was
LogConsent(log, record, written) ==
    IF written THEN Append(log, record) ELSE log

ConsentRecord(call, refs, time, path) ==
    [timestamp |-> time,
     user_id |-> call.user,
     pdf_filename |-> call.pdf,
     total_references |-> Len(refs),
     selected_references |->
        IF call.selected # NoSelection /\ call.selected # <<>>
        THEN Len(call.selected) ELSE 0,
     download_path |-> path,
     consent_given |-> call.consent,
     session_id |-> call.session]

\* log_consent(consent_record), called on its own
LogConsentCall ==
    /\ CanCall
    /\ rmOps' = rmOps + 1
    /\ \E u \in Users, se \in Sessions, f \in Pdfs, c \in BOOLEAN,
          written \in BOOLEAN :
        consentLog' =
            LogConsent(consentLog,
                       ConsentRecord([NoCall EXCEPT !.user = u, !.session = se,
                                         !.pdf = f, !.consent = c],
                                     <<>>, now, download_dir),
                       written)
    /\ NoDownloaderResults
    /\ NoProcessResults
    /\ rmBatchResults' = NoBatchResults
    /\ rmHistory' = NoHistory
    /\ UNCHANGED <<logExists, rmManagers, rmPc, rmBatch>>
    /\ UNCHANGED <<now, last_arxiv_request, last_pubmed_request, download_dir,
                   progress_callback,
                   dlFiles, dlPc, dlQueue, dlK, pmIds, arxivSent, pubmedSent>>
    /\ UNCHANGED OthersRM

\* The loop of get_consent_history over the lines of the log
RECURSIVE ConsentHistory(_, _, _, _)
ConsentHistory(log, user_id, limit, records) ==
    IF log = <<>> THEN records
    ELSE IF user_id = NoUser \/ Head(log).user_id = user_id
    THEN IF Len(records) + 1 >= limit
         THEN Append(records, Head(log))
         ELSE ConsentHistory(Tail(log), user_id, limit, Append(records, Head(log)))
    ELSE ConsentHistory(Tail(log), user_id, limit, records)

\* get_consent_history(user_id, limit)
GetConsentHistory ==
    /\ CanCall
    /\ rmOps' = rmOps + 1
    /\ \E u \in Users \cup {NoUser}, limit \in Limits :
        rmHistory' = [called |-> TRUE, user_id |-> u, limit |-> limit,
                      records |-> ConsentHistory(consentLog, u, limit, <<>>)]
    /\ NoDownloaderResults
    /\ NoProcessResults
    /\ rmBatchResults' = NoBatchResults
    /\ UNCHANGED <<logExists, consentLog, rmManagers, rmPc, rmBatch>>
    /\ UNCHANGED <<now, last_arxiv_request, last_pubmed_request, download_dir,
                   progress_callback,
                   dlFiles, dlPc, dlQueue, dlK, pmIds, arxivSent, pubmedSent>>
    /\ UNCHANGED OthersRM

\* cleanup_downloads: the PDF files of the download path that are old enough
\* are removed
CleanupDownloads ==
    /\ CanCall
    /\ rmOps' = rmOps + 1
    /\ \E old \in SUBSET {f \in dlFiles : f[1] = download_dir} :
        dlFiles' = dlFiles \ old
    /\ NoDownloaderResults
    /\ NoProcessResults
    /\ rmBatchResults' = NoBatchResults
    /\ rmHistory' = NoHistory
    /\ UNCHANGED <<now, last_arxiv_request, last_pubmed_request, download_dir,
                   progress_callback,
                   dlPc, dlQueue, dlK, pmIds, arxivSent, pubmedSent>>
    /\ UNCHANGED <<logExists, consentLog, rmManagers, rmPc, rmBatch>>
    /\ UNCHANGED OthersRM

\* batch_process_pdfs: one result more in batch_results
BatchCounted(b, result) ==
    [b EXCEPT
        !.processed_pdfs = @ + 1,
        !.successful_pdfs = IF result.error THEN @ ELSE @ + 1,
        !.failed_pdfs = IF result.error THEN @ + 1 ELSE @,
        !.total_references_extracted =
            IF result.error THEN @ ELSE @ + result.references_extracted,
        !.total_references_downloaded =
            IF ~result.error /\ result.downloaded
            THEN @ + result.download_results.successful_downloads ELSE @]

\* process_pdf_with_consent returns; inside batch_process_pdfs the loop goes
\* on with the next PDF
ProcessReturn(result) ==
    /\ rmResult' = result
    /\ IF rmBatch = <<>>
       THEN /\ rmPc' = "idle"
            /\ rmBatchResults' = NoBatchResults
            /\ UNCHANGED rmBatch
       ELSE /\ rmBatch' = Tail(rmBatch)
            /\ rmBatchResults' = BatchCounted(rmBatchResults, result)
            /\ rmPc' = IF Tail(rmBatch) = <<>> THEN "idle" ELSE "batch"

\* process_pdf_with_consent up to the consent record: the results dictionary,
\* the extraction, the custom download path (os.makedirs may raise)
ProcessBegin(call) ==
    /\ rmCall' = call
    /\ rmLogStart' = Len(consentLog)
    /\ \E refs \in ExtractedLists, makedirs_ok \in BOOLEAN :
        /\ rmRefs' = refs
        /\ download_dir' = IF call.custom # NoPath THEN call.custom ELSE download_dir
        /\ UNCHANGED progress_callback
        /\ IF call.custom # NoPath /\ ~makedirs_ok
           THEN ProcessReturn([NoResult EXCEPT
                                  !.pdf_filename = call.pdf,
                                  !.references_extracted = Len(refs),
                                  !.consent_given = call.consent,
                                  !.error = TRUE])
           ELSE /\ rmPc' = "log"
                /\ rmResult' = NoResult
                /\ rmBatchResults' =
                      IF rmBatch = <<>> THEN NoBatchResults ELSE rmBatchResults
                /\ UNCHANGED rmBatch
    /\ NoDownloaderResults
    /\ rmHistory' = NoHistory
    /\ UNCHANGED <<logExists, consentLog, rmManagers>>
    /\ UNCHANGED <<now, last_arxiv_request, last_pubmed_request, dlFiles, dlPc,
                   dlQueue, dlK, pmIds, arxivSent, pubmedSent>>
    /\ UNCHANGED OthersRM

\* process_pdf_with_consent(pdf_path, user_id, session_id, consent_given,
\* selected_reference_indices, custom_download_path) is called
ProcessPdfWithConsent ==
    /\ CanCall
    /\ rmOps' = rmOps + 1
    /\ \E f \in Pdfs, u \in ProcessUsers, se \in Sessions, c \in BOOLEAN,
          sel \in Selections, path \in {NoPath, CustomDir} :
        ProcessBegin([pdf |-> f, user |-> u, session |-> se, consent |-> c,
                      selected |-> sel, custom |-> path])

\* batch_process_pdfs(pdf_paths, user_id, session_id, consent_given,
\* selected_references_map, custom_download_path) is called
BatchProcessPdfs ==
    /\ CanCall
    /\ rmOps' = rmOps + 1
    /\ \E pdfs \in {<<>>, <<"a.pdf">>, <<"a.pdf", "b.pdf">>},
          u \in ProcessUsers,
          se \in Sessions, c \in BOOLEAN, sel \in Selections,
          path \in {NoPath, CustomDir} :
        /\ rmBatch' = pdfs
        /\ rmBatchResults' = [NoBatchResults EXCEPT !.total_pdfs = Len(pdfs)]
        /\ rmCall' = [pdf |-> "", user |-> u, session |-> se, consent |-> c,
                      selected |-> sel, custom |-> path]
        /\ rmPc' = IF pdfs = <<>> THEN "idle" ELSE "batch"
    /\ NoDownloaderResults
    /\ rmRefs' = <<>>
    /\ rmLogStart' = 0
    /\ rmResult' = NoResult
    /\ rmHistory' = NoHistory
    /\ UNCHANGED <<logExists, consentLog, rmManagers>>
    /\ UNCHANGED <<now, last_arxiv_request, last_pubmed_request, download_dir,
                   progress_callback,
                   dlFiles, dlPc, dlQueue, dlK, pmIds, arxivSent, pubmedSent>>
    /\ UNCHANGED OthersRM

\* The loop of batch_process_pdfs calls process_pdf_with_consent for the next
\* PDF; the map holds the selection for "a.pdf" only, so the others get []
BatchNextPdf ==
    /\ rmPc = "batch"
    /\ UNCHANGED rmOps
    /\ ProcessBegin([rmCall EXCEPT
           !.pdf = Head(rmBatch),
           !.selected = IF rmCall.selected = NoSelection THEN NoSelection
                        ELSE IF Head(rmBatch) = "a.pdf" THEN rmCall.selected
                        ELSE <<>>])

\* if consent_given and selected_reference_indices and references
ShouldDownloadIgnoringConsent(consent_given, selected, references) ==
    /\ selected # NoSelection /\ selected # <<>>
    /\ references # <<>>
ShouldDownload(consent_given, selected, references) ==
    /\ consent_given
    /\ selected # NoSelection /\ selected # <<>>
    /\ references # <<>>

\* [references[i] for i in selected_indices if i < len(references)]
SelectedReferences(references, selected) ==
    LET kept == SelectSeq(selected, LAMBDA i : i < Len(references))
    IN  [k \in 1..Len(kept) |-> references[kept[k] + 1]]

\* process_pdf_with_consent: the consent record is logged, then the selected
\* references are handed to the downloader if consent was given
ProcessLogConsent ==
    /\ rmPc = "log"
    /\ \E written \in BOOLEAN :
        consentLog' = LogConsent(consentLog,
                                 ConsentRecord(rmCall, rmRefs, now, download_dir),
                                 written)
    /\ IF ShouldDownload(rmCall.consent, rmCall.selected, rmRefs)
       THEN LET refs == SelectedReferences(rmRefs, rmCall.selected) IN
            /\ dlQueue' = refs
            /\ dlResults' = EmptyResults(Len(refs))
            /\ dlPc' = IF refs = <<>> THEN "done" ELSE "check"
            /\ rmPc' = "downloading"
            /\ UNCHANGED <<rmResult, rmBatch, rmBatchResults>>
       ELSE /\ ProcessReturn([NoResult EXCEPT
                                 !.pdf_filename = rmCall.pdf,
                                 !.references_extracted = Len(rmRefs),
                                 !.consent_given = rmCall.consent])
            /\ UNCHANGED <<dlQueue, dlResults, dlPc>>
    /\ UNCHANGED <<logExists, rmManagers, rmOps, rmCall, rmRefs, rmLogStart,
                   rmHistory>>
    /\ UNCHANGED <<now, last_arxiv_request, last_pubmed_request, download_dir,
                   progress_callback,
                   dlFiles, dlK, dlTrace, pmIds, arxivSent, pubmedSent>>
    /\ UNCHANGED OthersRM

\* download_selected_references returns what the downloader returned
ProcessDownloaded ==
    /\ rmPc = "downloading"
    /\ dlPc = "done"
    /\ dlPc' = "idle"
    /\ ProcessReturn([NoResult EXCEPT
                         !.pdf_filename = rmCall.pdf,
                         !.references_extracted = Len(rmRefs),
                         !.consent_given = rmCall.consent,
                         !.downloaded = TRUE,
                         !.download_results = dlResults])
    /\ UNCHANGED <<logExists, consentLog, rmManagers, rmOps, rmCall, rmRefs,
                   rmLogStart, rmHistory>>
    /\ UNCHANGED <<now, last_arxiv_request, last_pubmed_request, download_dir,
                   progress_callback,
                   dlFiles, dlQueue, dlK, dlTrace, dlResults, pmIds, arxivSent,
                   pubmedSent>>
    /\ UNCHANGED OthersRM

RMNext ==
    \/ NewManager
    \/ LogConsentCall
    \/ GetConsentHistory
    \/ CleanupDownloads
    \/ ProcessPdfWithConsent
    \/ BatchProcessPdfs
    \/ BatchNextPdf
    \/ ProcessLogConsent
    \/ ProcessDownloaded
    \/ DLSteps

\* ---------------------------------------------- ReferenceManager: claims
\* C7: the consent log is append-only: over every step of every manager
\* operation (construction of a new manager, log_consent,
\* process_pdf_with_consent, batch_process_pdfs, get_consent_history,
\* cleanup_downloads) the records that were in the log before the step are an
\* unchanged prefix of the log after it.
C7_ConsentLogAppendOnly == [][IsPrefix(consentLog, consentLog')]_vars

\* A manager was constructed over the log file of an earlier run and a call
\* has appended to it
C7_Witness ==
    /\ rmManagers > 0
    /\ Len(consentLog) >= 2
    /\ consentLog[1] = EarlierRecord

\* A call of process_pdf_with_consent, on its own or from batch_process_pdfs,
\* that was given consent_given = False is running or was the last to return
WithoutConsent == rmCall # NoCall /\ ~rmCall.consent

\* C8: while and after process_pdf_with_consent runs with consent_given False,
\* on its own or for any PDF of batch_process_pdfs, the downloader is never
\* entered (no reference is queued, no search method is invoked) and the
\* result's download_results stays None.
C8_NoDownloadWithoutConsent ==
    WithoutConsent =>
        /\ dlPc = "idle"
        /\ dlQueue = <<>>
        /\ dlTrace = <<>>
        /\ ~rmResult.downloaded
        /\ rmResult.download_results = NoResult.download_results
        /\ rmBatchResults.total_references_downloaded = 0

\* Inside batch_process_pdfs without consent: the call for the first of two
\* PDFs has returned, references were extracted and the first was selected
C8_Witness ==
    /\ WithoutConsent
    /\ rmPc = "batch"
    /\ rmCall.selected = <<0>>
    /\ rmBatchResults.successful_pdfs = 1
    /\ rmResult.references_extracted > 0

\* The call in progress has written, since it began, a record with
\* consent_given true for its PDF, user and session
ConsentWritten ==
    \E k \in (rmLogStart + 1)..Len(consentLog) :
        /\ consentLog[k].consent_given
        /\ consentLog[k].pdf_filename = rmCall.pdf
        /\ consentLog[k].user_id = rmCall.user
        /\ consentLog[k].session_id = rmCall.session

\* C9: whenever process_pdf_with_consent is searching for or downloading a
\* reference, the call has before that written to the consent log a record
\* with consent_given true for that PDF, user and session.
C9_ConsentLoggedBeforeDownload ==
    (rmPc = "downloading" /\ dlPc \notin {"idle", "done"}) => ConsentWritten


\* records holds elements of log in the order of log
RECURSIVE InOrderOf(_, _)
InOrderOf(records, log) ==
    IF records = <<>> THEN TRUE
    ELSE IF log = <<>> THEN FALSE
    ELSE IF Head(records) = Head(log) THEN InOrderOf(Tail(records), Tail(log))
    ELSE InOrderOf(records, Tail(log))

HistoryOfUser ==
    rmHistory.user_id # NoUser =>
        \A i \in 1..Len(rmHistory.records) :
            rmHistory.records[i].user_id = rmHistory.user_id

\* C20: get_consent_history(user_id, limit) returns at most limit records,
\* for every limit >= 0; every returned record belongs to user_id when one
\* is given; and the records are in the order in which the log holds them.
C20_HistoryWithinLimit ==
    rmHistory.called =>
        /\ Len(rmHistory.records) <= rmHistory.limit
        /\ HistoryOfUser
        /\ InOrderOf(rmHistory.records, consentLog)

\* ----------------------------------------------------- ReferenceExtractor
\* Confidence values are written in hundredths: 0.9 is 90.
\* self.citation_patterns in the order of the dictionary: for each pattern its
\* format and the number of groups of its regular expression
citation_patterns ==
    << [format |-> "apa", groups |-> 7], [format |-> "apa", groups |-> 8],
       [format |-> "mla", groups |-> 7],
       [format |-> "chicago", groups |-> 7],
       [format |-> "ieee", groups |-> 8],
       [format |-> "generic", groups |-> 7], [format |-> "generic", groups |-> 8] >>

\* _create_reference_from_match: the groups a format asks for and the
\* confidence it assigns
RequiredGroups ==
    [apa |-> 7, mla |-> 6, chicago |-> 7, ieee |-> 8, generic |-> 7]
FormatConfidence ==
    [apa |-> 90, mla |-> 85, chicago |-> 85, ieee |-> 80, generic |-> 70]

\* A reference entry: the patterns that re.search finds in it, and whether
\* _extract_basic_reference_info finds authors, a title and a year in it
Entries ==
    [matches : SUBSET (1..Len(citation_patterns)),
     authors : BOOLEAN, title : BOOLEAN, year : BOOLEAN]

NoReference == [stage |-> "none", format |-> "", confidence |-> 0]

\* _create_reference_from_match(match, format_name, raw_text)
CreateReferenceFromMatch(pattern) ==
    IF pattern.groups >= RequiredGroups[pattern.format]
    THEN [stage |-> "pattern", format |-> pattern.format,
          confidence |-> FormatConfidence[pattern.format]]
    ELSE NoReference

\* _extract_basic_reference_info(entry)
ExtractBasicReferenceInfo(entry) ==
    IF entry.authors /\ entry.title /\ entry.year
    THEN [stage |-> "fallback", format |-> "", confidence |-> 60]
    ELSE IF entry.authors /\ entry.title
    THEN [stage |-> "fallback", format |-> "", confidence |-> 40]
    ELSE NoReference

\* The patterns in the order in which _parse_reference_entry goes through them
PatternOrderGenericFirst == <<6, 7, 1, 2, 3, 4, 5>>
PatternOrder == <<1, 2, 3, 4, 5, 6, 7>>

\* _parse_reference_entry(entry) from the k-th pattern of the order on:
\* the reference returned and the patterns searched so far
RECURSIVE ParseFrom(_, _, _)
ParseFrom(entry, k, searched) ==
    IF k > Len(PatternOrder)
    THEN [reference |-> ExtractBasicReferenceInfo(entry),
          searched |-> searched, fallback |-> TRUE]
    ELSE LET p == PatternOrder[k]
             reference == CreateReferenceFromMatch(citation_patterns[p])
         IN  IF p \in entry.matches /\ reference # NoReference
             THEN [reference |-> reference, searched |-> Append(searched, p),
                   fallback |-> FALSE]
             ELSE ParseFrom(entry, k + 1, Append(searched, p))

ParseReferenceEntry(entry) == ParseFrom(entry, 1, <<>>)

NoEntry == [matches |-> {}, authors |-> FALSE, title |-> FALSE, year |-> FALSE]
NoParse == [reference |-> NoReference, searched |-> <<>>, fallback |-> FALSE]

\* What the language model may put in the "confidence" field of an item:
\* nothing, a number, or something float() raises on
Confidences == {-10, 0, 50, 95, 100, 150}
\* An item of the JSON array: a dictionary or something else
NotADict == [dict |-> FALSE, hasConfidence |-> FALSE, number |-> FALSE, value |-> 0]
AiItems ==
    {NotADict}
    \cup {[dict |-> TRUE, hasConfidence |-> FALSE, number |-> FALSE, value |-> 0]}
    \cup {[dict |-> TRUE, hasConfidence |-> TRUE, number |-> FALSE, value |-> 0]}
    \cup {[dict |-> TRUE, hasConfidence |-> TRUE, number |-> TRUE, value |-> c] :
             c \in Confidences}
\* The answer of ollama.chat: the call raises, the content holds no JSON
\* array, the array does not parse, or it parses to a list of items
AiResponses ==
    {[kind |-> k, items |-> <<>>] : k \in {"raises", "no_array", "invalid_json"}}
    \cup {[kind |-> "array", items |-> items] :
             items \in UNION {[1..n -> AiItems] : n \in 0..MaxAiItems}}
NoResponse == [kind |-> "none", items |-> <<>>]

\* float(ref_data.get('confidence', 0.5))
AiConfidence(item) == IF item.hasConfidence THEN item.value ELSE 50

\* _process_chunk_with_ai(chunk): a ValueError of float() is caught by the
\* outer handler and the chunk yields no reference
ProcessChunkWithAi(response) ==
    IF response.kind # "array" THEN <<>>
    ELSE IF \E k \in 1..Len(response.items) :
               /\ response.items[k].dict
               /\ response.items[k].hasConfidence
               /\ ~response.items[k].number
    THEN <<>>
    ELSE LET dicts == SelectSeq(response.items, LAMBDA item : item.dict)
         IN  [k \in 1..Len(dicts) |->
                 [stage |-> "ai", format |-> "",
                  confidence |-> AiConfidence(dicts[k])]]

ExInit ==
    /\ exEntry = NoEntry
    /\ exParsed = NoParse
    /\ exResponse = NoResponse
    /\ exAiRefs = <<>>

\* _parse_reference_entry(entry) is called
ParseReferenceEntryCall ==
    /\ exParsed = NoParse
    /\ \E entry \in Entries :
        /\ exEntry' = entry
        /\ exParsed' = ParseReferenceEntry(entry)
    /\ UNCHANGED <<exResponse, exAiRefs>>
    /\ UNCHANGED OthersEx

\* _process_chunk_with_ai(chunk) is called
ProcessChunkWithAiCall ==
    /\ exResponse = NoResponse
    /\ \E response \in AiResponses :
        /\ exResponse' = response
        /\ exAiRefs' = ProcessChunkWithAi(response)
    /\ UNCHANGED <<exEntry, exParsed>>
    /\ UNCHANGED OthersEx

ExNext == ParseReferenceEntryCall \/ ProcessChunkWithAiCall

\* -------------------------------------------- ReferenceExtractor: claims
\* The references the last calls produced
ProducedReferences ==
    (IF exParsed.reference # NoReference THEN {exParsed.reference} ELSE {})
    \cup Range(exAiRefs)

\* C12: every reference produced by a matched pattern, by the basic-field
\* fallback or by the AI-assisted extraction has a confidence in [0, 1].
C12_ConfidenceInUnitInterval ==
    \A r \in ProducedReferences : 0 <= r.confidence /\ r.confidence <= 100

\* The references the basic-field fallback can produce
FallbackReferences ==
    {ExtractBasicReferenceInfo(e) : e \in Entries} \ {NoReference}

\* C13: every reference of a matched pattern has a strictly higher confidence
\* than every reference of the basic-field fallback, and every reference of
\* the fallback a strictly higher confidence than every AI-assisted one.
C13_ConfidenceOrderedByStage ==
    /\ exParsed.reference.stage = "pattern" =>
          \A f \in FallbackReferences :
              exParsed.reference.confidence > f.confidence
    /\ exParsed.reference.stage = "fallback" =>
          \A a \in Range(exAiRefs) :
              exParsed.reference.confidence > a.confidence

FormatOrder == <<"apa", "mla", "chicago", "ieee", "generic">>
FormatRank(f) == CHOOSE k \in 1..Len(FormatOrder) : FormatOrder[k] = f
\* The formats of which a pattern matches the entry
MatchingFormats == {citation_patterns[p].format : p \in exEntry.matches}
SearchedFormats ==
    [k \in 1..Len(exParsed.searched) |->
        citation_patterns[exParsed.searched[k]].format]

\* C14: _parse_reference_entry consults the formats in the order APA, MLA,
\* Chicago, IEEE, generic; the reference returned comes from the first format
\* in that order that matches the entry, no later format is consulted, and
\* the basic-field fallback is used only when no format matches.
C14_FormatCascade ==
    exParsed # NoParse =>
        /\ \A j, k \in 1..Len(SearchedFormats) :
              j < k => FormatRank(SearchedFormats[j]) <= FormatRank(SearchedFormats[k])
        /\ IF MatchingFormats = {}
           THEN /\ exParsed.fallback
                /\ exParsed.reference = ExtractBasicReferenceInfo(exEntry)
                /\ Range(SearchedFormats) = Range(FormatOrder)
           ELSE /\ ~exParsed.fallback
                /\ exParsed.reference.stage = "pattern"
                /\ exParsed.reference.format \in MatchingFormats
                /\ \A f \in MatchingFormats :
                      FormatRank(exParsed.reference.format) <= FormatRank(f)
                /\ \A k \in 1..Len(SearchedFormats) :
                      FormatRank(SearchedFormats[k])
                          <= FormatRank(exParsed.reference.format)

\* An entry that the MLA pattern and a generic pattern match: the reference
\* is MLA's and the generic patterns were not searched
C14_Witness ==
    /\ exEntry.matches = {3, 6}
    /\ exParsed.reference.format = "mla"
    /\ exParsed.searched = <<1, 2, 3>>

\* ----------------------- ReferenceExtractor: AI-assisted and hybrid mode
\* A reference on this level is its title and its extraction_method
RefTitles == {"Deep", "deep", "nets"}
RegexReferences == {[title |-> t, extraction_method |-> "regex"] : t \in RefTitles}
RegexLists(n) == UNION {[1..k -> RegexReferences] : k \in 0..n}
AiReferences ==
    {[title |-> t, extraction_method |-> m] :
        t \in RefTitles, m \in {"ai", "regex_fallback"}}
AiLists(n) == UNION {[1..k -> AiReferences] : k \in 0..n}

\* A chunk of _split_text_for_ai: what ollama.chat answers for it, the
\* 'title' fields of the items of the answer (NoneTitle: JSON null), and
\* what _extract_references_from_text finds in it
ChunkItems ==
    {item \in AiItems : item.dict /\ (item.hasConfidence => ~item.number)}
ChunkResponses ==
    {r \in AiResponses :
        \/ r.kind # "array"
        \/ /\ Len(r.items) <= 1
           /\ \A k \in 1..Len(r.items) : r.items[k] \in ChunkItems}
AiChunks ==
    {c \in [response : ChunkResponses,
            titles : {<<>>} \cup {<<t>> : t \in RefTitles \cup {NoneTitle}},
            regex : RegexLists(1)] :
        Len(c.titles) = Len(c.response.items)}
AiChunkLists == UNION {[1..n -> AiChunks] : n \in 0..MaxAiChunks}

\* The references _process_chunk_with_ai returns for a chunk
ChunkWithAi(chunk) ==
    LET refs == ProcessChunkWithAi(chunk.response) IN
    [k \in 1..Len(refs) |->
        [title |-> chunk.titles[k], extraction_method |-> "ai"]]

\* Whether _process_chunk_with_ai raises: its outer handler catches every
\* Exception of the call and of the parsing and returns []
ProcessChunkRaises(chunk) == FALSE

Relabelled(refs, method) ==
    [k \in 1..Len(refs) |-> [refs[k] EXCEPT !.extraction_method = method]]

\* The body of the loop of _extract_references_ai for one chunk
ChunkReferences(chunk) ==
    IF ProcessChunkRaises(chunk)
    THEN Relabelled(chunk.regex, "regex_fallback")
    ELSE ChunkWithAi(chunk)

RECURSIVE AllReferences(_)
AllReferences(chunks) ==
    IF chunks = <<>> THEN <<>>
    ELSE ChunkReferences(Head(chunks)) \o AllReferences(Tail(chunks))

\* _extract_references_from_text on the whole text: what it finds in the
\* chunks, one after the other
RECURSIVE ExtractReferencesFromText(_)
ExtractReferencesFromText(chunks) ==
    IF chunks = <<>> THEN <<>>
    ELSE Head(chunks).regex \o ExtractReferencesFromText(Tail(chunks))

\* ref.title.lower() as the key of seen_titles
SeenKeyExact(title) == title
SeenKey(title) == LowerToken(title)

\* _deduplicate_references: the first reference of every title
RECURSIVE DeduplicateFrom(_, _, _)
DeduplicateFrom(references, unique_refs, seen_titles) ==
    IF references = <<>> THEN unique_refs
    ELSE LET ref == Head(references) IN
         IF SeenKey(ref.title) \notin seen_titles
         THEN DeduplicateFrom(Tail(references), Append(unique_refs, ref),
                              seen_titles \cup {SeenKey(ref.title)})
         ELSE DeduplicateFrom(Tail(references), unique_refs, seen_titles)
DeduplicateReferences(references) == DeduplicateFrom(references, <<>>, {})
\* None has no lower(): _deduplicate_references raises
DeduplicateRaises(references) ==
    \E k \in 1..Len(references) : references[k].title = NoneTitle

\* _extract_references_ai: without a PaperAgent, and when anything outside
\* the loop body raises, the regex extraction of the whole text
ExtractReferencesAi(paper_agent, chunks) ==
    IF ~paper_agent THEN ExtractReferencesFromText(chunks)
    ELSE LET all_references == AllReferences(chunks) IN
         IF DeduplicateRaises(all_references)
         THEN ExtractReferencesFromText(chunks)
         ELSE DeduplicateReferences(all_references)

\* _combine_extraction_results: the AI references first, then the regex
\* references of titles not seen, labelled "regex"
CombineExtractionResults(ai_references, regex_references) ==
    LET combined == DeduplicateFrom(ai_references, <<>>, {})
        seen_titles == {SeenKey(combined[k].title) : k \in 1..Len(combined)}
    IN  DeduplicateFrom(Relabelled(regex_references, "regex"), combined,
                        seen_titles)

NoAiCall == [called |-> FALSE, paper_agent |-> FALSE, chunks |-> <<>>,
             references |-> <<>>]
NoCombine == [called |-> FALSE, ai |-> <<>>, regex |-> <<>>, combined |-> <<>>]

HyInit ==
    /\ hyAi = NoAiCall
    /\ hyCombine = NoCombine

\* _extract_references_ai(text) is called on a new extractor
ExtractReferencesAiCall ==
    /\ ~hyAi.called
    /\ ~hyCombine.called
    /\ \E paper_agent \in BOOLEAN, chunks \in AiChunkLists :
        hyAi' = [called |-> TRUE, paper_agent |-> paper_agent, chunks |-> chunks,
                 references |-> ExtractReferencesAi(paper_agent, chunks)]
    /\ UNCHANGED hyCombine
    /\ UNCHANGED OthersHy

\* _combine_extraction_results(ai_references, regex_references) is called
\* on a new extractor
CombineExtractionResultsCall ==
    /\ ~hyAi.called
    /\ ~hyCombine.called
    /\ \E ai \in AiLists(MaxRefs), regex \in RegexLists(MaxRefs) :
        hyCombine' = [called |-> TRUE, ai |-> ai, regex |-> regex,
                      combined |-> CombineExtractionResults(ai, regex)]
    /\ UNCHANGED hyAi
    /\ UNCHANGED OthersHy

HyNext == ExtractReferencesAiCall \/ CombineExtractionResultsCall

\* The AI processing of the chunk failed: the call raised, the answer holds
\* no array or does not parse, or a confidence is no number
AiFailed(chunk) ==
    \/ chunk.response.kind # "array"
    \/ \E k \in 1..Len(chunk.response.items) :
          /\ chunk.response.items[k].hasConfidence
          /\ ~chunk.response.items[k].number

\* C22: when the AI processing of a chunk fails inside
\* _extract_references_ai, the references the regex extractor finds in that
\* chunk are in the result (one per title) and the one kept for a title no
\* earlier chunk produced is labelled 'regex_fallback'; the other chunks are
\* processed as well.
C22_FailedChunkFallsBackToRegex ==
    (hyAi.called /\ hyAi.paper_agent
        /\ ~DeduplicateRaises(AllReferences(hyAi.chunks))) =>
        \A n \in 1..Len(hyAi.chunks) :
            LET chunk == hyAi.chunks[n]
                earlier == AllReferences(SubSeq(hyAi.chunks, 1, n - 1))
                result == hyAi.references
            IN  /\ AiFailed(chunk) =>
                      \A j \in 1..Len(chunk.regex) :
                        \E i \in 1..Len(result) :
                            /\ LowerToken(result[i].title) =
                                  LowerToken(chunk.regex[j].title)
                            /\ (\A e \in Range(earlier) :
                                    LowerToken(e.title) #
                                        LowerToken(chunk.regex[j].title))
                               => result[i].extraction_method = "regex_fallback"
                /\ ~AiFailed(chunk) =>
                      \A j \in 1..Len(chunk.titles) :
                        \E i \in 1..Len(result) :
                            LowerToken(result[i].title) =
                                LowerToken(chunk.titles[j])

Kept(i) == hyCombine.combined[i]
\* The number of AI references in the combined list
KeptAi ==
    Cardinality({i \in 1..Len(hyCombine.combined) :
                    \E k \in 1..Len(hyCombine.ai) :
                        LowerToken(hyCombine.ai[k].title) = LowerToken(Kept(i).title)})

\* C23: the list _combine_extraction_results(ai, regex) returns holds no two
\* references of the same case-insensitive title, every title of either
\* input exactly once, the kept AI references before the kept regex
\* references, each group in its original order, and for a title of both
\* inputs the AI reference.
C23_CombinedUniqueAiFirst ==
    hyCombine.called =>
        LET c == hyCombine.combined IN
        /\ \A i, j \in 1..Len(c) :
              i # j => LowerToken(c[i].title) # LowerToken(c[j].title)
        /\ \A x \in Range(hyCombine.ai) \cup Range(hyCombine.regex) :
              Cardinality({i \in 1..Len(c) :
                              LowerToken(c[i].title) = LowerToken(x.title)}) = 1
        /\ InOrderOf(SubSeq(c, 1, KeptAi), hyCombine.ai)
        /\ InOrderOf(SubSeq(c, KeptAi + 1, Len(c)), hyCombine.regex)
        /\ \A i \in 1..Len(c) :
              (\E x \in Range(hyCombine.ai) :
                  LowerToken(x.title) = LowerToken(c[i].title))
              => c[i] \in Range(hyCombine.ai)

\* The AI found "Deep" and the regex extractor "deep" and "nets": the AI
\* reference and the regex reference of the other title are kept
C23_Witness ==
    /\ hyCombine.called
    /\ hyCombine.ai = <<[title |-> "Deep", extraction_method |-> "ai"]>>
    /\ Len(hyCombine.regex) = 2
    /\ hyCombine.regex[1].title = "deep"
    /\ hyCombine.regex[2].title = "nets"
    /\ Len(hyCombine.combined) = 2

\* ------------------------------------------------------------ PaperAgent
\* The coordinates of the stored vectors and of the question's embedding
Coordinates == {0, 2, 5}
\* What load_vector_store or build_pdf_vector_store hands to the agent: an
\* index of one-dimensional vectors with its parallel chunks and metadata
KnowledgeBases ==
    {[index |-> [built |-> TRUE, d |-> 1, vectors |-> vectors],
      chunks |-> [i \in 1..Len(vectors) |-> i + 10],
      metadata |-> [i \in 1..Len(vectors) |-> [filename |-> "a.pdf", page |-> i]]] :
        vectors \in UNION {[1..n -> {<<c>> : c \in Coordinates}] : n \in 1..MaxVectors}}
\* Python's None as self.chunks and self.metadata after a failed load
NoList == <<"<None>">>
NoQuery == [called |-> FALSE, k |-> 0, outcome |-> ""]
NoBuild == [called |-> FALSE, returned |-> FALSE, chunks |-> FALSE]

PAInit ==
    /\ paIndex = NoIndex
    /\ paChunks = <<>>
    /\ paMetadata = <<>>
    /\ paQuery = NoQuery
    /\ paNeighbours = <<>>
    /\ paContext = <<>>
    /\ paSources = <<>>
    /\ paBuild = NoBuild

\* load_knowledge_base / build_knowledge_base: the three values the vector
\* store builder returned, None, None, None when it failed
LoadKnowledgeBase ==
    /\ ~paQuery.called
    /\ paIndex = NoIndex
    /\ paChunks = <<>>
    /\ \/ \E kb \in KnowledgeBases :
            /\ paIndex' = kb.index
            /\ paChunks' = kb.chunks
            /\ paMetadata' = kb.metadata
       \/ /\ paIndex' = NoIndex
          /\ paChunks' = NoList
          /\ paMetadata' = NoList
    /\ UNCHANGED <<paQuery, paNeighbours, paContext, paSources, paBuild>>
    /\ UNCHANGED OthersPA

\* build_knowledge_base(pdf_directory): no chunk was extracted and False is
\* returned, or the three values build_pdf_vector_store returns are assigned:
\* None, None, None when no embedding could be obtained
BuildKnowledgeBase ==
    /\ ~paQuery.called
    /\ ~paBuild.called
    /\ \/ /\ paBuild' = [called |-> TRUE, returned |-> FALSE, chunks |-> FALSE]
          /\ UNCHANGED <<paIndex, paChunks, paMetadata>>
       \/ \E kb \in KnowledgeBases :
            /\ paIndex' = kb.index
            /\ paChunks' = kb.chunks
            /\ paMetadata' = kb.metadata
            /\ paBuild' = [called |-> TRUE, returned |-> TRUE, chunks |-> TRUE]
       \/ /\ paIndex' = NoIndex
          /\ paChunks' = NoList
          /\ paMetadata' = NoList
          /\ paBuild' = [called |-> TRUE, returned |-> FALSE, chunks |-> TRUE]
    /\ UNCHANGED <<paQuery, paNeighbours, paContext, paSources>>
    /\ UNCHANGED OthersPA

\* The squared L2 distance of two vectors of one dimension
Distance(v, q) == (v[1] - q[1]) * (v[1] - q[1])

\* index.search(query_embedding, k): the 0-based positions of the k nearest
\* vectors, nearest first, and -1 in the places for which no vector is left
RECURSIVE Search(_, _, _, _)
Search(vectors, q, k, taken) ==
    IF k = 0 THEN <<>>
    ELSE LET left == (1..Len(vectors)) \ taken IN
         IF left = {} THEN <<-1>> \o Search(vectors, q, k - 1, taken)
         ELSE LET best == CHOOSE i \in left : \A j \in left :
                             \/ Distance(vectors[i], q) < Distance(vectors[j], q)
                             \/ /\ Distance(vectors[i], q) = Distance(vectors[j], q)
                                /\ i <= j
              IN  <<best - 1>> \o Search(vectors, q, k - 1, taken \cup {best})

\* list[i] of Python: a negative i counts from the end of the list
Item(list, i) == IF i >= 0 THEN list[i + 1] ELSE list[Len(list) + i + 1]

\* [self.chunks[i] for i in indices[0] if i < len(self.chunks)]
Retrieve(list, indices) ==
    LET kept == SelectSeq(indices, LAMBDA i : i < Len(list))
    IN  [n \in 1..Len(kept) |-> Item(list, kept[n])]

\* zip(context_chunks, context_metadata)
Zip(a, b) == [n \in 1..Min(Len(a), Len(b)) |-> <<a[n], b[n]>>]

\* query(question, k) is called
Query ==
    /\ ~paQuery.called
    /\ \E k \in 1..MaxK :
        IF ~paIndex.built
        THEN /\ paQuery' = [called |-> TRUE, k |-> k, outcome |-> "not_available"]
             /\ UNCHANGED <<paNeighbours, paContext, paSources>>
        ELSE \/ \* ollama.embeddings raises or answers without 'embedding'
                /\ paQuery' = [called |-> TRUE, k |-> k, outcome |-> "raised"]
                /\ UNCHANGED <<paNeighbours, paContext, paSources>>
             \/ \E c \in Coordinates, chat_ok \in BOOLEAN :
                 LET indices == Search(paIndex.vectors, <<c>>, k, {})
                     context_chunks == Retrieve(paChunks, indices)
                     context_metadata == Retrieve(paMetadata, indices)
                 IN  /\ paNeighbours' = indices
                     /\ paContext' = Zip(context_chunks, context_metadata)
                     /\ IF chat_ok
                        THEN /\ paSources' = context_metadata
                             /\ paQuery' = [called |-> TRUE, k |-> k,
                                            outcome |-> "answered"]
                        ELSE /\ paSources' = <<>>
                             /\ paQuery' = [called |-> TRUE, k |-> k,
                                            outcome |-> "raised"]
    /\ UNCHANGED <<paIndex, paChunks, paMetadata, paBuild>>
    /\ UNCHANGED OthersPA

PANext == LoadKnowledgeBase \/ BuildKnowledgeBase \/ Query

\* ---------------------------------------------------- PaperAgent: claims
\* The positions the search returned as actual neighbours
ActualNeighbours == SelectSeq(paNeighbours, LAMBDA i : i >= 0)

\* C16: the context of query(question, k) holds exactly the chunks stored at
\* the positions the search returned as actual neighbours, each with its own
\* metadata, at most k of them; the placeholders the search returns when the
\* index holds fewer than k vectors contribute no chunk; the sources
\* returned are the metadata of those chunks.
C16_ContextOnlyFromNeighbours ==
    paQuery.outcome = "answered" =>
        /\ Len(paContext) <= paQuery.k
        /\ Len(paContext) = Len(ActualNeighbours)
        /\ \A n \in 1..Len(paContext) :
              /\ n <= Len(ActualNeighbours)
              /\ paContext[n] = <<paChunks[ActualNeighbours[n] + 1],
                                  paMetadata[ActualNeighbours[n] + 1]>>
        /\ paSources = [n \in 1..Len(paContext) |-> paContext[n][2]]

\* ------------------------------------------------ PDFProcessor.split_text
\* A text is a sequence of characters
Characters == {"a", Blank}
Texts == UNION {[1..n -> Characters] : n \in 0..MaxText}

\* str.strip()
RECURSIVE LStrip(_)
LStrip(t) == IF t # <<>> /\ Head(t) = Blank THEN LStrip(Tail(t)) ELSE t
RECURSIVE RStrip(_)
RStrip(t) ==
    IF t # <<>> /\ t[Len(t)] = Blank THEN RStrip(SubSeq(t, 1, Len(t) - 1)) ELSE t
Strip(t) == RStrip(LStrip(t))

\* end = min(start + chunk_size, len(text))
WindowEndBeyond(start, chunk_size, length) == Min(start + chunk_size + 1, length)
WindowEnd(start, chunk_size, length) == Min(start + chunk_size, length)

\* The while loop of split_text from position start on
RECURSIVE SplitFrom(_, _, _, _, _, _)
SplitFrom(text, chunk_size, overlap, start, windows, chunks) ==
    IF ~(start < Len(text)) THEN [windows |-> windows, chunks |-> chunks]
    ELSE LET end == WindowEnd(start, chunk_size, Len(text))
             chunk == Strip(Slice(text, start, end))
             windows2 == Append(windows, [start |-> start, end |-> end])
             chunks2 == IF chunk # <<>> THEN Append(chunks, chunk) ELSE chunks
         IN  IF end = Len(text)
             THEN [windows |-> windows2, chunks |-> chunks2]
             ELSE SplitFrom(text, chunk_size, overlap,
                            IF end - overlap < 0 THEN 0 ELSE end - overlap,
                            windows2, chunks2)

\* split_text(text, chunk_size, overlap)
SplitText(text, chunk_size, overlap) ==
    IF Strip(text) = <<>> THEN [windows |-> <<>>, chunks |-> <<>>]
    ELSE SplitFrom(text, chunk_size, overlap, 0, <<>>, <<>>)

NoSplit == [called |-> FALSE, text |-> <<>>, chunk_size |-> 0, overlap |-> 0]

SpInit ==
    /\ spArgs = NoSplit
    /\ spWindows = <<>>
    /\ spChunks = <<>>

\* split_text(text, chunk_size, overlap) is called with overlap < chunk_size
SplitTextCall ==
    /\ ~spArgs.called
    /\ \E text \in Texts, chunk_size \in 1..MaxChunkSize :
        \E overlap \in 0..(chunk_size - 1) :
            LET split == SplitText(text, chunk_size, overlap) IN
            /\ spArgs' = [called |-> TRUE, text |-> text,
                          chunk_size |-> chunk_size, overlap |-> overlap]
            /\ spWindows' = split.windows
            /\ spChunks' = split.chunks
    /\ UNCHANGED OthersSp

SpNext == SplitTextCall

\* C17: split_text(text, chunk_size, overlap) with 0 <= overlap < chunk_size
\* cuts a text that is not blank into windows: the first starts at 0, each
\* spans at most chunk_size characters and each but the last exactly
\* chunk_size, each next one starts overlap characters before the end of the
\* one before, the last ends at the end of the text, and every character
\* lies in a window; the chunks returned are the windows stripped, without
\* the blank ones; a blank or empty text yields no chunk.
C17_OverlappingWindows ==
    spArgs.called =>
        IF Strip(spArgs.text) = <<>> THEN spChunks = <<>>
        ELSE LET n == Len(spWindows)
                 width(i) == spWindows[i].end - spWindows[i].start
                 stripped == [i \in 1..n |->
                     Strip(Slice(spArgs.text, spWindows[i].start, spWindows[i].end))]
             IN  /\ n >= 1
                 /\ spWindows[1].start = 0
                 /\ spWindows[n].end = Len(spArgs.text)
                 /\ \A i \in 1..n :
                       /\ width(i) <= spArgs.chunk_size
                       /\ i < n => width(i) = spArgs.chunk_size
                       /\ i < n => spWindows[i + 1].start
                                      = spWindows[i].end - spArgs.overlap
                 /\ \A pos \in 0..(Len(spArgs.text) - 1) :
                       \E i \in 1..n :
                           spWindows[i].start <= pos /\ pos < spWindows[i].end
                 /\ spChunks = SelectSeq(stripped, LAMBDA c : c # <<>>)

\* Overlapping windows of which one is stripped and one is blank and dropped
C17_Witness ==
    /\ spArgs.called
    /\ spArgs.overlap = 1
    /\ Len(spWindows) = 3
    /\ Len(spChunks) = 2
    /\ Len(spChunks[1]) < spArgs.chunk_size

\* C27: a build_knowledge_base call that returns False leaves the knowledge
\* base that was loaded before unchanged: index, chunks and metadata are what
\* they were before the call, whether no chunk was extracted or no embedding
\* could be obtained.
FailedBuildStep ==
    (paIndex.built /\ ~paBuild.called /\ paBuild'.called /\ ~paBuild'.returned) =>
        UNCHANGED <<paIndex, paChunks, paMetadata>>
C27_FailedBuildKeepsKnowledgeBase == [][FailedBuildStep]_vars

\* C19: PaperAgent.query, one of the public boundary operations, never
\* propagates an exception raised by an external call (the embedding
\* service, the index, the language model): a call ends with the sentinel
\* "Knowledge base not available" or with an answer.
C19_QueryNeverRaises ==
    paQuery.called => paQuery.outcome \in {"not_available", "answered"}

\* ------------------------------- PDFProcessor.load_pdfs_from_directory
\* os.listdir(directory_path), in the order it lists the files
Listings == {<<>>, <<"notes.txt">>, <<"a.pdf", "notes.txt", "B.PDF">>}
\* f.lower().endswith(".pdf")
IsPdf(f) == f \in {"a.pdf", "B.PDF"}
PdfFiles(listing) == SelectSeq(listing, IsPdf)

\* page.get_text("text") of a page
PageTexts == {<<>>, <<"a", "a", "a">>, <<Blank, "a", Blank, Blank, "a">>}
\* What a file turns out to hold: its pages, and where the PDF library
\* raises: 0 on fitz.open, p on page p, Len(pages) + 1 nowhere
Documents ==
    {[pages |-> pages, fails |-> f] :
        pages \in UNION {[1..n -> PageTexts] : n \in 0..MaxPages},
        f \in 0..(MaxPages + 1)}
NoDocument == [pages |-> <<>>, fails |-> 0]

\* re.sub(r"\s+", " ", page_text).strip()
RECURSIVE Collapse(_)
Collapse(t) ==
    IF Len(t) < 2 THEN t
    ELSE IF t[1] = Blank /\ t[2] = Blank THEN Collapse(Tail(t))
    ELSE <<Head(t)>> \o Collapse(Tail(t))
Clean(page_text) == Strip(Collapse(page_text))

\* clean_text[: self.max_chars_per_page] if it is longer
Truncate(clean_text, max_chars) ==
    IF Len(clean_text) > max_chars THEN Slice(clean_text, 0, max_chars)
    ELSE clean_text

\* self.split_text(clean_text) of a page
PageChunks(page_text, max_chars) ==
    SplitText(Truncate(Clean(page_text), max_chars), PageChunkSize,
              PageOverlap).chunks

\* "page": page_num + 1
PageNumberZeroBased(page_num) == page_num
PageNumber(page_num) == page_num + 1

\* The metadata of the chunks of one page (filepath and timestamp left out)
PageMetadata(filename, page_num, page_chunks) ==
    [i \in 1..Len(page_chunks) |->
        [filename |-> filename, page |-> PageNumber(page_num),
         chunk_index |-> i - 1, total_chunks |-> Len(page_chunks)]]

PPInit ==
    /\ ppPc = "idle"
    /\ ppMaxChars = 0
    /\ ppFiles = <<>>
    /\ ppFilename = ""
    /\ ppPageNum = 0
    /\ ppDocs = [f \in {"a.pdf", "B.PDF"} |-> NoDocument]
    /\ ppChunks = <<>>
    /\ ppMetadata = <<>>

\* PDFProcessor(max_chars_per_page).load_pdfs_from_directory(directory_path)
\* is called: the directory does not exist, os.listdir raises (outside any
\* try), the directory holds no PDF, or the loop begins
LoadPdfsFromDirectory ==
    /\ ppPc = "idle"
    /\ \E max_chars \in {PageChunkSize, MaxText} : ppMaxChars' = max_chars
    /\ \/ /\ ppPc' \in {"returned", "raised"}
          /\ UNCHANGED ppFiles
       \/ \E listing \in Listings :
            /\ ppFiles' = PdfFiles(listing)
            /\ ppPc' = IF PdfFiles(listing) = <<>> THEN "returned" ELSE "open"
    /\ UNCHANGED <<ppFilename, ppPageNum, ppDocs, ppChunks, ppMetadata>>
    /\ UNCHANGED OthersPP

\* The loop goes on with the next file, or the lists are returned
NextFile(files) ==
    /\ ppFiles' = files
    /\ ppPc' = IF files = <<>> THEN "returned" ELSE "open"

\* fitz.open(filepath) of the next file: it raises, or the document is open
OpenPdf ==
    /\ ppPc = "open"
    /\ ppFilename' = Head(ppFiles)
    /\ ppPageNum' = 0
    /\ \E doc \in Documents :
        /\ doc.fails <= Len(doc.pages) + 1
        /\ ppDocs' = [ppDocs EXCEPT ![Head(ppFiles)] = doc]
        /\ IF doc.fails = 0 \/ doc.pages = <<>>
           THEN NextFile(Tail(ppFiles))
           ELSE /\ ppPc' = "page"
                /\ ppFiles' = Tail(ppFiles)
    /\ UNCHANGED <<ppMaxChars, ppChunks, ppMetadata>>
    /\ UNCHANGED OthersPP

\* One page of the open document: loading it raises and the file is given
\* up, or its chunks and their metadata are appended
ProcessPage ==
    /\ ppPc = "page"
    /\ LET doc == ppDocs[ppFilename] IN
        IF doc.fails = PageNumber(ppPageNum)
        THEN /\ NextFile(ppFiles)
             /\ UNCHANGED <<ppPageNum, ppChunks, ppMetadata>>
        ELSE LET page_chunks == PageChunks(doc.pages[ppPageNum + 1], ppMaxChars) IN
             /\ ppChunks' = ppChunks \o page_chunks
             /\ ppMetadata' =
                   ppMetadata \o PageMetadata(ppFilename, ppPageNum, page_chunks)
             /\ ppPageNum' = ppPageNum + 1
             /\ IF ppPageNum + 1 < Len(doc.pages)
                THEN UNCHANGED <<ppPc, ppFiles>>
                ELSE NextFile(ppFiles)
    /\ UNCHANGED <<ppMaxChars, ppFilename, ppDocs>>
    /\ UNCHANGED OthersPP

PPNext == LoadPdfsFromDirectory \/ OpenPdf \/ ProcessPage

\* C18: the chunk and metadata lists of load_pdfs_from_directory always have
\* the same length and metadata[i] describes chunks[i]: its filename is a PDF
\* that was opened, its page a 1-based page of that PDF, its total_chunks the
\* number of chunks of that page, and chunks[i] is the chunk at position
\* chunk_index of that page, 0 <= chunk_index < total_chunks; also when
\* files fail on opening or part-way.
C18_MetadataDescribesChunk ==
    /\ Len(ppChunks) = Len(ppMetadata)
    /\ \A i \in 1..Len(ppMetadata) :
          LET m == ppMetadata[i] IN
          /\ IsPdf(m.filename)
          /\ m.page \in 1..Len(ppDocs[m.filename].pages)
          /\ LET expected ==
                    PageChunks(ppDocs[m.filename].pages[m.page], ppMaxChars)
             IN  /\ m.total_chunks = Len(expected)
                 /\ 0 <= m.chunk_index
                 /\ m.chunk_index < m.total_chunks
                 /\ ppChunks[i] = expected[m.chunk_index + 1]

\* The first PDF failed on its second page after its first page gave
\* chunks, and the second PDF gave chunks of its second page
C18_Witness ==
    /\ ppPc = "returned"
    /\ ppDocs["a.pdf"].fails = 2
    /\ ppMetadata # <<>>
    /\ ppMetadata[1].filename = "a.pdf"
    /\ ppMetadata[Len(ppMetadata)].filename = "B.PDF"
    /\ ppMetadata[Len(ppMetadata)].page = 2
    /\ ppMetadata[Len(ppMetadata)].chunk_index > 0

\* The chunks of the result whose metadata names the file
ChunksOf(filename) ==
    LET positions == SelectSeq([i \in 1..Len(ppMetadata) |-> i],
                               LAMBDA i : ppMetadata[i].filename = filename)
    IN  [n \in 1..Len(positions) |-> ppChunks[positions[n]]]
\* All chunks of the pages of a document
RECURSIVE ChunksOfPages(_)
ChunksOfPages(pages) ==
    IF pages = <<>> THEN <<>>
    ELSE PageChunks(Head(pages), ppMaxChars) \o ChunksOfPages(Tail(pages))

\* C29: load_pdfs_from_directory skips a PDF whose processing raises and
\* goes on: in the result the failed PDF has no chunk and no metadata entry,
\* and every other PDF of the directory has all of its chunks.
C29_FailedPdfContributesNothing ==
    ppPc = "returned" =>
        \A filename \in {"a.pdf", "B.PDF"} :
            LET doc == ppDocs[filename] IN
            IF doc.fails <= Len(doc.pages)
            THEN ChunksOf(filename) = <<>>
            ELSE ChunksOf(filename) = ChunksOfPages(doc.pages)

\* ------------------------------------- web_UI/main.py: reference endpoints
\* What the body of a handler's try block ends with: a returned answer, an
\* HTTPException raised with a status, or another exception (status 0)
Returned(body) == [raised |-> FALSE, status_code |-> 200, body |-> body]
Raised(status_code) == [raised |-> TRUE, status_code |-> status_code, body |-> <<>>]

\* except Exception as e: raise HTTPException(status_code=500, ...): an
\* HTTPException raised in the try block is an Exception as well
ExceptException(outcome) ==
    IF outcome.raised THEN Raised(500) ELSE outcome

NoRequest == [called |-> FALSE]
\* The three endpoints share no state: a behaviour follows the requests to
\* one of them
NoOtherEndpoint ==
    ~webExtract.called /\ ~webDownload.called /\ manualCalls = 0

\* POST /api/references/extract with pdf_filename
ExtractEndpoint(initialised, exists, count, body_raises) ==
    IF ~initialised THEN Raised(500)
    ELSE ExceptException(
            IF ~exists THEN Raised(404)
            ELSE IF body_raises THEN Raised(0)
            ELSE Returned([count |-> count]))

ExtractReferencesFromPdf ==
    /\ NoOtherEndpoint
    /\ \E initialised, exists, body_raises \in BOOLEAN, count \in 0..MaxRefs :
        webExtract' = [called |-> TRUE, initialised |-> initialised,
                       exists |-> exists,
                       answer |-> ExtractEndpoint(initialised, exists, count,
                                                  body_raises)]
    /\ UNCHANGED <<webDownload, manualFile, manualAdded, manualCalls>>
    /\ UNCHANGED OthersWeb

\* A reference id of a request: whether it holds a "_", whether what follows
\* the last "_" is an integer, and that integer
RequestIds ==
    {[file |-> f, underscore |-> TRUE, integer |-> TRUE, index |-> i] :
        f \in Pdfs, i \in 0..1}
    \cup {[file |-> "a.pdf", underscore |-> TRUE, integer |-> FALSE, index |-> 0],
          [file |-> "a", underscore |-> FALSE, integer |-> FALSE, index |-> 0]}
RequestIdLists == UNION {[1..n -> RequestIds] : n \in 0..MaxRequestIds}

\* The loop over reference_ids: the positions in reference_ids of the ids
\* that put a reference on references_to_download, in order
Selecting(reference_ids, all_references) ==
    SelectSeq([n \in 1..Len(reference_ids) |-> n],
              LAMBDA n : /\ reference_ids[n].underscore
                         /\ reference_ids[n].integer
                         /\ reference_ids[n].index < Len(all_references))
\* references_to_download
ReferencesToDownload(reference_ids, all_references) ==
    LET selecting == Selecting(reference_ids, all_references) IN
    [i \in 1..Len(selecting) |->
        Item(all_references, reference_ids[selecting[i]].index)]

\* ref_id in the loop over references_to_download: the variable of the loop
\* over reference_ids, which has ended
LoopVariableAfterLoop(reference_ids, selecting, i) ==
    reference_ids[Len(reference_ids)]

\* The results of the loop over references_to_download
DownloadResults(reference_ids, all_references, statuses) ==
    LET selecting == Selecting(reference_ids, all_references)
        refs == ReferencesToDownload(reference_ids, all_references)
    IN  [i \in 1..Len(refs) |->
            [id |-> LoopVariableAfterLoop(reference_ids, selecting, i),
             reference |-> refs[i], status |-> statuses[i]]]

\* all_references: the references extracted from the uploaded PDFs
AllReferenceLists ==
    {[i \in 1..n |-> [source_pdf |-> "a.pdf", position |-> i - 1]] :
        n \in 0..MaxRefs}

\* POST /api/references/download with reference_ids
DownloadReferences ==
    /\ NoOtherEndpoint
    /\ \E initialised \in BOOLEAN, reference_ids \in RequestIdLists,
          all_references \in AllReferenceLists,
          statuses \in [1..MaxRequestIds -> {"success", "failed", "error"}] :
        webDownload' =
            [called |-> TRUE, reference_ids |-> reference_ids,
             all_references |-> all_references,
             answer |->
                IF ~initialised THEN Raised(500)
                ELSE IF reference_ids = <<>> THEN Raised(400)
                ELSE Returned(DownloadResults(reference_ids, all_references,
                                              statuses))]
    /\ UNCHANGED <<webExtract, manualFile, manualAdded, manualCalls>>
    /\ UNCHANGED OthersWeb

\* ./manual_references.json: absent, a JSON list, or a file json.load fails on
Absent == [kind |-> "absent", refs |-> <<>>]
Unreadable == [kind |-> "unreadable", refs |-> <<>>]
Stored(refs) == [kind |-> "list", refs |-> refs]
ManualReferences == {[title |-> t, source_pdf |-> "manual_entry"] : t \in {"A", "B"}}

\* manual_refs before the append: the stored list, [] when the file is
\* absent and also when reading it raises
ManualRefsRead(file, read_ok) ==
    IF file.kind = "list" /\ read_ok THEN file.refs ELSE <<>>

WebInit ==
    /\ webExtract = NoRequest
    /\ webDownload = NoRequest
    /\ manualFile = Absent
    /\ manualAdded = <<>>
    /\ manualCalls = 0

\* POST /api/references/manual: the file is read, the entry appended and the
\* file written anew; open(.., 'w') may raise and leave the file, json.dump
\* may raise and leave the file begun
AddManualReference ==
    /\ ~webExtract.called /\ ~webDownload.called
    /\ manualCalls < MaxManualCalls
    /\ manualCalls' = manualCalls + 1
    /\ \E reference_data \in ManualReferences, read_ok \in BOOLEAN,
          write \in {"written", "open_raises", "dump_raises"} :
        LET manual_refs ==
                Append(ManualRefsRead(manualFile, read_ok), reference_data)
        IN  /\ manualFile' =
                  CASE write = "written" -> Stored(manual_refs)
                    [] write = "open_raises" -> manualFile
                    [] write = "dump_raises" -> Unreadable
            /\ manualAdded' =
                  IF write = "written" THEN Append(manualAdded, reference_data)
                  ELSE manualAdded
    /\ UNCHANGED <<webExtract, webDownload>>
    /\ UNCHANGED OthersWeb

WebNext == ExtractReferencesFromPdf \/ DownloadReferences \/ AddManualReference

\* C24: POST /api/references/extract answers with the status 404 when the
\* named PDF does not exist in the upload directory.
C24_MissingPdfAnswers404 ==
    (webExtract.called /\ webExtract.initialised /\ ~webExtract.exists) =>
        webExtract.answer.status_code = 404

\* C25: in the answer of POST /api/references/download the i-th result
\* carries the id of the request that selected the i-th downloaded
\* reference.
C25_ResultCarriesOwnId ==
    (webDownload.called /\ ~webDownload.answer.raised) =>
        LET ids == webDownload.reference_ids
            selecting == Selecting(ids, webDownload.all_references)
            results == webDownload.answer.body
        IN  /\ Len(results) = Len(selecting)
            /\ \A i \in 1..Len(results) : results[i].id = ids[selecting[i]]

\* C30: after any sequence of POST /api/references/manual calls the stored
\* list holds every reference added so far, in the order added.
C30_ManualReferencesKept ==
    manualCalls > 0 => ManualRefsRead(manualFile, TRUE) = manualAdded

\* ------------------------------------------------------ specifications
Init ==
    /\ VSInit
    /\ SimInit
    /\ DLInit
    /\ RMInit
    /\ ExInit
    /\ StInit
    /\ PAInit
    /\ SpInit
    /\ PPInit
    /\ HyInit
    /\ WebInit

SpecVS == Init /\ [][VSNext]_vars
SpecSim == Init /\ [][SimNext]_vars
SpecDL == Init /\ [][DLNext]_vars
SpecRM == Init /\ [][RMNext]_vars
SpecEx == Init /\ [][ExNext]_vars
SpecSt == Init /\ [][StNext]_vars
SpecPA == Init /\ [][PANext]_vars
SpecSp == Init /\ [][SpNext]_vars
SpecPP == Init /\ [][PPNext]_vars
SpecHy == Init /\ [][HyNext]_vars
SpecWeb == Init /\ [][WebNext]_vars

====
